---- MODULE Spec2Model ----
(***************************************************************************)
(* Model of the invoice extraction core of the tracker application:        *)
(*   tracker/extraction_utils.py  InvoiceExtractor, process_invoice_...    *)
(*   tracker/utils/document_extraction.py  DocumentExtractor               *)
(*                                                                         *)
(* Strings are tuples of one-character strings.  An optional value         *)
(* (Python None or a value) is a tuple of length 0 or 1.  A text is known  *)
(* to the model by its length and by what re.search finds in it for every  *)
(* regular expression the code applies to it: <<>> for "no match", else    *)
(* the tuple of the capture groups, each an optional string.               *)
(***************************************************************************)
EXTENDS Integers, Sequences, FiniteSets, TLC

\* ------------------------------------------------------------------ bounds
MaxRows == 2          \* rows in the configuration store (both tables)
MaxLoads == 3         \* cap on the counter of configuration store reads

\* ------------------------------------------------------------ basic values
None == <<>>
Some(v) == <<v>>

Whitespace == {" "}

RECURSIVE LStrip(_)
LStrip(s) == IF s # <<>> /\ Head(s) \in Whitespace THEN LStrip(Tail(s)) ELSE s

RECURSIVE RStrip(_)
RStrip(s) ==
  IF s # <<>> /\ s[Len(s)] \in Whitespace THEN RStrip(SubSeq(s, 1, Len(s) - 1)) ELSE s

\* str.strip()
Strip(s) == RStrip(LStrip(s))

\* str.lower() on the characters the model uses
LowerChar(c) == CASE c = "A" -> "a" [] c = "B" -> "b" [] OTHER -> c

Lower(s) == [i \in 1..Len(s) |-> LowerChar(s[i])]

\* `kw in description`: kw occurs as a contiguous substring
IsSubstring(kw, s) ==
  \E i \in 0..(Len(s) - Len(kw)) : \A j \in 1..Len(kw) : s[i + j] = kw[j]

RECURSIVE FilterSeq(_, _)
FilterSeq(s, keep) ==
  IF s = <<>> THEN <<>>
  ELSE IF Head(s) \in keep THEN <<Head(s)>> \o FilterSeq(Tail(s), keep)
  ELSE FilterSeq(Tail(s), keep)

\* ------------------------------------------------- regular expression ids
\* The regular expressions of the built-in table, by field type and priority.
DefaultRegexes ==
  {"d_plate_ref", "d_plate_std", "d_amount_total", "d_amount_num",
   "d_phone_tz", "d_phone_gen", "d_name", "d_email", "d_service",
   "d_quantity", "d_reference"}

\* Regular expressions an administrator configured: two that compile (one
\* capture group each) and one that does not compile.
CustomRegexes == {"rx1", "rx2", "rxbad"}

\* The regular expressions process_invoice_extraction applies to the text
\* (lines 333, 339, 409, 412, 415)
EnrichRegexes == {"e_code", "e_ref", "e_vat", "e_net", "e_gross"}

Regexes == DefaultRegexes \cup CustomRegexes \cup EnrichRegexes

\* re.search raises re.error for a pattern that does not compile
ValidRegex(r) == r # "rxbad"

\* ------------------------------------------------------------ field types
FIELD_TYPES ==
  {"plate_number", "customer_name", "customer_phone", "customer_email",
   "service_description", "item_name", "quantity", "amount", "date",
   "reference"}

Rule(n, r, g, p) == [name |-> n, regex |-> r, group |-> g, priority |-> p]

\* InvoiceExtractor._default_patterns
DefaultPatternTable ==
  [ft \in {"plate_number", "amount", "customer_phone", "customer_name",
           "customer_email", "service_description", "quantity", "reference"} |->
    CASE ft = "plate_number" ->
           << Rule("Plate in reference field", "d_plate_ref", 1, 10),
              Rule("Standard plate format", "d_plate_std", 1, 20) >>
      [] ft = "amount" ->
           << Rule("Amount with currency symbol", "d_amount_total", 2, 10),
              Rule("Numeric amount", "d_amount_num", 1, 100) >>
      [] ft = "customer_phone" ->
           << Rule("Tanzania phone format", "d_phone_tz", 1, 10),
              Rule("General phone format", "d_phone_gen", 1, 20) >>
      [] ft = "customer_name" ->
           << Rule("Name after customer label", "d_name", 1, 10) >>
      [] ft = "customer_email" ->
           << Rule("Email pattern", "d_email", 1, 10) >>
      [] ft = "service_description" ->
           << Rule("Service/description field", "d_service", 1, 10) >>
      [] ft = "quantity" ->
           << Rule("Quantity field", "d_quantity", 1, 10) >>
      [] OTHER ->
           << Rule("Invoice/Reference number", "d_reference", 1, 10) >> ]

\* self._default_patterns().get(field_type, [])
DefaultPatternsGet(ft) ==
  IF ft \in DOMAIN DefaultPatternTable THEN DefaultPatternTable[ft] ELSE <<>>

\* ---------------------------------------------------------------- texts
\* Sample capture strings.  Each one is a string the regular expression it
\* is listed for can capture (character classes of extraction_utils.py
\* lines 64-138).
DefaultValueCapture(r) ==
  CASE r = "d_plate_ref" -> << Some(<<"T", "1">>) >>
    [] r = "d_plate_std" -> << Some(<<"T", "2">>) >>
    [] r = "d_amount_total" -> << None, Some(<<"1", ",", "0">>) >>
    [] r = "d_amount_num" -> << Some(<<"0">>) >>
    [] r = "d_phone_tz" -> << Some(<<"0", "7">>) >>
    [] r = "d_phone_gen" -> << Some(<<"7">>) >>
    [] r = "d_name" -> << Some(<<"A", "b", " ">>) >>
    [] r = "d_email" -> << Some(<<"e">>) >>
    [] r = "d_service" -> << Some(<<"A", "b">>) >>
    [] r = "d_quantity" -> << Some(<<"2">>) >>
    [] OTHER -> << Some(<<"R">>) >>

\* A capture without content: white space only where the class of the group
\* admits \s, a lone comma for the amount groups ([\d,]+), no match for the
\* groups that need a letter or a digit.
DefaultBlankCapture(r) ==
  CASE r \in {"d_name", "d_service"} -> << Some(<<" ">>) >>
    [] r = "d_amount_total" -> << None, Some(<<",">>) >>
    [] r = "d_amount_num" -> << Some(<<",">>) >>
    [] OTHER -> <<>>

DefaultOutcome(r, variant) ==
  CASE variant = "none" -> <<>>
    [] variant = "blank" -> DefaultBlankCapture(r)
    [] OTHER -> DefaultValueCapture(r)

\* The rule of lowest priority value of each built-in field type
FirstDefaultRegexes ==
  { DefaultPatternTable[ft][1].regex : ft \in DOMAIN DefaultPatternTable }

Outcomes1 ==
  { <<>>, << None >>, << Some(<<" ">>) >>, << Some(<<" ", "a", " ">>) >> }

Outcomes2 == { <<>>, << Some(<<>>) >>, << Some(<<"b">>) >> }

\* What the built-in rules find: <<variant of the first rule of each field
\* type, variant of the second rule>>
DefaultVariants ==
  { <<"none", "none">>, <<"none", "value">>, <<"blank", "value">>,
    <<"value", "value">> }

TextLen == 20

\* What the enrichment regexes find, by variant: nothing; a value each; a
\* reference of blanks and a VAT amount of a lone comma; a reference whose
\* text after FOR is blank and a VAT amount without integer digits
EnrichOutcome(r, ev) ==
  CASE ev = "values" ->
         ( CASE r = "e_code" -> << Some(<<"C", "1">>) >>
             [] r = "e_ref" -> << Some(<<"F", "O", "R", " ", "T", "1", " ">>) >>
             [] r = "e_vat" -> << Some(<<"1", ",", "5">>) >>
             [] r = "e_net" -> << Some(<<"7">>) >>
             [] OTHER -> << Some(<<"8">>) >> )
    [] ev = "blank" ->
         ( CASE r = "e_ref" -> << Some(<<" ", " ", " ">>) >>
             [] r = "e_vat" -> << Some(<<",">>) >>
             [] OTHER -> <<>> )
    [] ev = "for_blank" ->
         ( CASE r = "e_ref" -> << Some(<<"F", "O", "R", " ", " ", "-">>) >>
             [] r = "e_vat" -> << Some(<<",", ".", "5">>) >>
             [] OTHER -> <<>> )
    [] OTHER -> <<>>

EnrichVariants == {"none", "values", "blank", "for_blank"}

\* A line item as DocumentExtractor._extract_items emits it
Item(d, c, q, r, v) ==
  [description |-> d, code |-> c, qty |-> q, rate |-> r, value |-> v]

SampleItems ==
  << Item(<<"A", "0", "1", " ", "2", " ", "5", " ", "1", "0">>, Some(<<"A", "0", "1">>),
          Some(<<"2">>), Some(<<"5">>), Some(<<"1", "0">>)),
     Item(<<"b", " ", "7">>, None, None, None, Some(<<"7">>)) >>

\* Whether one of the enrichment regexes rs matches in variant ev
EnrichMatches(rs, ev) == \E r \in rs : EnrichOutcome(r, ev) # <<>>

\* What a built-in rule finds in a text of variants v and ev.  The regexes
\* overlap: a text with "Reference" holds "Ref" and a character for the
\* built-in reference rule; a text with "Code No" or "Value" holds a word
\* the standard plate rule (case ignored) takes; a text with an amount
\* after VAT, Net Value or Gross Value holds it for the numeric amount rule
BuiltInOutcome(r, v, ev) ==
  CASE r = "d_reference" /\ EnrichMatches({"e_ref"}, ev) -> DefaultValueCapture(r)
    [] r = "d_plate_std" /\ EnrichMatches({"e_code", "e_net", "e_gross"}, ev) ->
         DefaultValueCapture(r)
    [] r = "d_amount_num" /\ v[2] = "none"
         /\ EnrichMatches({"e_vat", "e_net", "e_gross"}, ev) ->
         IF ev = "blank" THEN DefaultBlankCapture(r) ELSE DefaultValueCapture(r)
    [] r \in FirstDefaultRegexes -> DefaultOutcome(r, v[1])
    [] OTHER -> DefaultOutcome(r, v[2])

\* A text: its length, what each regular expression finds in it, and the
\* line items DocumentExtractor._extract_items finds in it
MkText(n, o1, o2, v, ev, its) ==
  [len |-> n,
   m |-> [r \in Regexes |->
            CASE r = "rx1" -> o1
              [] r = "rx2" -> o2
              [] r = "rxbad" -> <<>>
              [] r \in EnrichRegexes -> EnrichOutcome(r, ev)
              [] OTHER -> BuiltInOutcome(r, v, ev)],
   items |-> its]

EmptyText == MkText(0, <<>>, <<>>, <<"none", "none">>, "none", <<>>)

Texts ==
  { MkText(TextLen, o1, o2, v, "none", <<>>) :
      o1 \in Outcomes1, o2 \in Outcomes2, v \in DefaultVariants }
  \cup {EmptyText}

\* ------------------------------------------------- the configuration store
PatternRow(n, ft, rx, g, p, act) ==
  [name |-> n, field_type |-> ft, regex_pattern |-> rx, extract_group |-> g,
   priority |-> p, is_active |-> act]

\* InvoicePatternMatcher rows an administrator may have created
PatternRowUniverse ==
  { PatternRow("p20", "plate_number", "rx1", 1, 20, TRUE),
    PatternRow("p10", "plate_number", "rx2", 1, 10, TRUE),
    PatternRow("bad10", "plate_number", "rxbad", 1, 10, TRUE),
    PatternRow("grp2", "plate_number", "rx2", 2, 15, TRUE),
    PatternRow("date10", "date", "rx1", 1, 10, TRUE),
    PatternRow("ref10", "reference", "rx2", 1, 10, TRUE),
    PatternRow("off5", "plate_number", "rx1", 1, 5, FALSE) }

TemplateRow(n, kw, mins, st, act, common) ==
  [name |-> n, keywords |-> kw, estimated_minutes |-> mins,
   service_type |-> st, is_active |-> act, is_common |-> common]

\* ServiceTemplate rows; keywords is the nullable comma-separated text
TemplateRowUniverse ==
  { TemplateRow("Oil Change", Some(<<" ", "A", ",", "b">>), 30, "service", TRUE, FALSE),
    TemplateRow("Brake Service", Some(<<"b", ",", ",", "x">>), 45, "service", TRUE, FALSE),
    TemplateRow("Retired", None, 10, "sales", FALSE, TRUE) }

\* Position of a template name in the ascending order of names
NameRank(n) ==
  CASE n = "Brake Service" -> 1 [] n = "Oil Change" -> 2 [] OTHER -> 3

RECURSIVE Perms(_)
Perms(S) ==
  IF S = {} THEN { <<>> }
  ELSE UNION { { <<x>> \o p : p \in Perms(S \ {x}) } : x \in S }

\* The active rows in an order that ignores priority (no order_by)
ActivePatternsAnyOrder(rows) == Perms({ r \in rows : r.is_active })

\* InvoicePatternMatcher.objects.filter(is_active=True).order_by('priority'):
\* every order of the active rows that is ascending in priority (the order
\* among rows of equal priority is the database's choice)
ActivePatternsByPriority(rows) ==
  { p \in Perms({ r \in rows : r.is_active }) :
      \A i \in 1..(Len(p) - 1) : p[i].priority <= p[i + 1].priority }

\* ServiceTemplate.objects.filter(is_active=True) under Meta.ordering
\* ['-is_common', 'name']
TemplateBefore(a, b) ==
  \/ a.is_common /\ ~b.is_common
  \/ a.is_common = b.is_common /\ NameRank(a.name) < NameRank(b.name)

ActiveTemplates(rows) ==
  CHOOSE p \in Perms({ r \in rows : r.is_active }) :
    \A i \in 1..(Len(p) - 1) : TemplateBefore(p[i], p[i + 1])

\* ------------------------------------------------------- InvoiceExtractor
\* InvoiceExtractor.__init__; reads counts the attempts to read the store
NewExtractor ==
  [patterns |-> <<>>, service_templates |-> <<>>, loaded |-> FALSE, reads |-> 0]

\* What the configuration store answers if it is read now: the active
\* pattern rows in query order, the active templates in query order, and
\* the point at which the read raises (phase "none": it does not)
StoreAnswers(prows, trows) ==
  { [rows |-> o, tmpls |-> ActiveTemplates(trows), fault |-> f] :
      o \in ActivePatternsByPriority(prows),
      f \in {[phase |-> "none", k |-> 0],
             [phase |-> "patterns", k |-> 0],
             [phase |-> "templates", k |-> 0]}
           \cup {[phase |-> "patterns", k |-> k] :
                   k \in 1..(Cardinality({r \in prows : r.is_active}) - 1)}
           \cup {[phase |-> "templates", k |-> k] :
                   k \in 1..(Cardinality({r \in trows : r.is_active}) - 1)} }

\* lines 32-41: append each row to the list of its field type
RECURSIVE AppendPatterns(_, _)
AppendPatterns(pats, rows) ==
  IF rows = <<>> THEN pats
  ELSE
    LET row == Head(rows)
        ft == row.field_type
        old == IF ft \in DOMAIN pats THEN pats[ft] ELSE <<>>
        info == Rule(row.name, row.regex_pattern, row.extract_group, row.priority)
        new == [t \in (DOMAIN pats) \cup {ft} |->
                  IF t = ft THEN Append(old, info) ELSE pats[t]]
    IN AppendPatterns(new, Tail(rows))

\* str.split(','): the pieces between the commas
RECURSIVE SplitComma(_, _)
SplitComma(s, cur) ==
  IF s = <<>> THEN <<cur>>
  ELSE IF Head(s) = "," THEN <<cur>> \o SplitComma(Tail(s), <<>>)
  ELSE SplitComma(Tail(s), Append(cur, Head(s)))

RECURSIVE StripLowerNonEmpty(_)
StripLowerNonEmpty(parts) ==
  IF parts = <<>> THEN <<>>
  ELSE IF Strip(Head(parts)) # <<>>
       THEN <<Lower(Strip(Head(parts)))>> \o StripLowerNonEmpty(Tail(parts))
       ELSE StripLowerNonEmpty(Tail(parts))

\* line 46
ParseKeywords(kw) ==
  StripLowerNonEmpty(SplitComma(IF kw = None THEN <<>> ELSE kw[1], <<>>))

\* lines 45-51: self.service_templates[template.name] = {...}; the dict is a
\* sequence of entries in insertion order, an existing name keeps its place
RECURSIVE InsertTemplates(_, _)
InsertTemplates(dict, rows) ==
  IF rows = <<>> THEN dict
  ELSE
    LET row == Head(rows)
        entry == [name |-> row.name, keywords |-> ParseKeywords(row.keywords),
                  minutes |-> row.estimated_minutes,
                  service_type |-> row.service_type]
        new == IF \E i \in 1..Len(dict) : dict[i].name = row.name
               THEN [i \in 1..Len(dict) |->
                       IF dict[i].name = row.name THEN entry ELSE dict[i]]
               ELSE Append(dict, entry)
    IN InsertTemplates(new, Tail(rows))

\* InvoiceExtractor._load_patterns_from_db with a guard that stays unset
\* when the load raises
LoadRetryAfterFailure(self, ans) ==
  IF self.loaded THEN self
  ELSE
    LET np == IF ans.fault.phase = "patterns" THEN ans.fault.k ELSE Len(ans.rows)
        nt == CASE ans.fault.phase = "patterns" -> 0
                [] ans.fault.phase = "templates" -> ans.fault.k
                [] OTHER -> Len(ans.tmpls)
    IN [patterns |-> AppendPatterns(self.patterns, SubSeq(ans.rows, 1, np)),
        service_templates |->
          InsertTemplates(self.service_templates, SubSeq(ans.tmpls, 1, nt)),
        loaded |-> (ans.fault.phase = "none"),
        reads |-> self.reads + 1]

\* InvoiceExtractor._load_patterns_from_db: the rows read before the fault
\* stay in the caches, the guard is set on both paths (lines 53 and 56)
LoadPatternsFromDb(self, ans) ==
  IF self.loaded THEN self
  ELSE
    LET np == IF ans.fault.phase = "patterns" THEN ans.fault.k ELSE Len(ans.rows)
        nt == CASE ans.fault.phase = "patterns" -> 0
                [] ans.fault.phase = "templates" -> ans.fault.k
                [] OTHER -> Len(ans.tmpls)
    IN [patterns |-> AppendPatterns(self.patterns, SubSeq(ans.rows, 1, np)),
        service_templates |->
          InsertTemplates(self.service_templates, SubSeq(ans.tmpls, 1, nt)),
        loaded |-> TRUE,
        reads |-> self.reads + 1]

\* One pass of the loop body of extract_field (lines 163-170):
\*   "raise"  the rule raised and the error was logged,
\*   "skip"   no match, or a capture that is None or '',
\*   "return" the function returns v
EvalRule(rule, text) ==
  IF ~ValidRegex(rule.regex) THEN [k |-> "raise", v |-> <<>>]
  ELSE
    LET mt == text.m[rule.regex] IN
      IF mt = <<>> THEN [k |-> "skip", v |-> <<>>]
      ELSE IF rule.group > Len(mt) THEN [k |-> "raise", v |-> <<>>]
      ELSE
        LET value == mt[rule.group] IN
          IF value = None \/ value[1] = <<>> THEN [k |-> "skip", v |-> <<>>]
          ELSE [k |-> "return", v |-> Strip(value[1])]

\* The loop of extract_field without the try/except around a rule: the
\* first rule that raises ends the search
RECURSIVE MatchRulesAbortOnRaise(_, _)
MatchRulesAbortOnRaise(rules, text) ==
  IF rules = <<>> THEN None
  ELSE
    LET e == EvalRule(Head(rules), text) IN
      IF e.k = "return" THEN Some(e.v)
      ELSE IF e.k = "raise" THEN None
      ELSE MatchRulesAbortOnRaise(Tail(rules), text)

\* lines 162-172
RECURSIVE MatchRules(_, _)
MatchRules(rules, text) ==
  IF rules = <<>> THEN None
  ELSE
    LET e == EvalRule(Head(rules), text) IN
      IF e.k = "return" THEN Some(e.v) ELSE MatchRules(Tail(rules), text)

\* Lines 158-160 without the fall back to the built-in table
RulesForNoDefaults(self, ft) ==
  IF ft \in DOMAIN self.patterns THEN self.patterns[ft] ELSE <<>>

\* lines 158-160: the rules extract_field iterates over
RulesFor(self, ft) ==
  IF ft \in DOMAIN self.patterns /\ self.patterns[ft] # <<>>
  THEN self.patterns[ft]
  ELSE DefaultPatternsGet(ft)

\* InvoiceExtractor.extract_field
ExtractField(self, ans, text, ft) ==
  LET s1 == LoadPatternsFromDb(self, ans) IN
    [self |-> s1, ret |-> MatchRules(RulesFor(s1, ft), text)]

\* ----------------------------------------------------------------- Decimal
Digits == {"0", "1", "2", "3", "4", "5", "6", "7", "8", "9"}

RECURSIVE DropLeadingZeros(_)
DropLeadingZeros(s) ==
  IF Len(s) > 1 /\ Head(s) = "0" THEN DropLeadingZeros(Tail(s)) ELSE s

CountOf(c, s) == Cardinality({ i \in 1..Len(s) : s[i] = c })

FirstIndexOf(c, s) == CHOOSE i \in 1..Len(s) : s[i] = c /\ \A j \in 1..(i - 1) : s[j] # c

\* decimal.Decimal(s) for a string of digits and points: None stands for
\* InvalidOperation, else the integer digits (no leading zero) and the
\* fraction digits
ParseDecimal(s) ==
  IF CountOf(".", s) > 1 \/ CountOf(".", s) = Len(s) THEN None
  ELSE
    LET dot == IF CountOf(".", s) = 1 THEN FirstIndexOf(".", s) ELSE Len(s) + 1
        ip == SubSeq(s, 1, dot - 1)
        fp == SubSeq(s, dot + 1, Len(s))
    IN Some([int |-> DropLeadingZeros(IF ip = <<>> THEN <<"0">> ELSE ip),
             frac |-> fp])

\* bool(Decimal): a zero is falsy
DecimalTruthy(d) ==
  \E i \in 1..Len(d.int \o d.frac) : (d.int \o d.frac)[i] # "0"

\* str(Decimal) in plain notation
DecimalStr(d) == IF d.frac = <<>> THEN d.int ELSE d.int \o <<".">> \o d.frac

\* InvoiceExtractor.extract_amount: None, or Some(decimal)
ExtractAmount(self, ans, text) ==
  LET f == ExtractField(self, ans, text, "amount") IN
    IF f.ret = None \/ f.ret[1] = <<>> THEN [self |-> f.self, ret |-> None]
    ELSE [self |-> f.self,
          ret |-> ParseDecimal(FilterSeq(f.ret[1], Digits \cup {"."}))]

\* --------------------------------------------------- service templates
MatchCount(template, description_lower) ==
  Cardinality({ i \in 1..Len(template.keywords) :
                  IsSubstring(template.keywords[i], description_lower) })

\* The loop with >= for >: among equal counts the last template wins
RECURSIVE BestTemplateLastWins(_, _, _, _)
BestTemplateLastWins(templates, description_lower, best_match, best_match_count) ==
  IF templates = <<>> THEN best_match
  ELSE
    LET t == Head(templates)
        c == MatchCount(t, description_lower)
    IN IF c >= best_match_count /\ c > 0
       THEN BestTemplateLastWins(Tail(templates), description_lower,
                                 Some([name |-> t.name, minutes |-> t.minutes]), c)
       ELSE BestTemplateLastWins(Tail(templates), description_lower,
                                 best_match, best_match_count)

\* lines 207-211: the loop over self.service_templates.items()
RECURSIVE BestTemplate(_, _, _, _)
BestTemplate(templates, description_lower, best_match, best_match_count) ==
  IF templates = <<>> THEN best_match
  ELSE
    LET t == Head(templates)
        c == MatchCount(t, description_lower)
    IN IF c > best_match_count
       THEN BestTemplate(Tail(templates), description_lower,
                         Some([name |-> t.name, minutes |-> t.minutes]), c)
       ELSE BestTemplate(Tail(templates), description_lower,
                         best_match, best_match_count)

\* InvoiceExtractor.match_service_template; description is None or Some(str)
MatchServiceTemplate(self, description) ==
  IF description = None \/ description[1] = <<>> THEN None
  ELSE BestTemplate(self.service_templates, Lower(description[1]), None, 0)

\* ------------------------------------------------------------ field maps
\* Values of a field map carry their Python type
Str(s) == [t |-> "str", s |-> s]
NameVal(n) == [t |-> "name", n |-> n]
IntVal(n) == [t |-> "int", n |-> n]

OptStr(o) == IF o = None THEN None ELSE Some(Str(o[1]))

\* {k: v for k, v in extracted.items() if v is not None}
DropNone(d) == [k \in { x \in DOMAIN d : d[x] # None } |-> d[k][1]]

\* dict.get(k): None when the key is missing
Get(d, k) == IF k \in DOMAIN d THEN Some(d[k]) ELSE None

\* d[k] = v
Put(d, k, v) == [x \in (DOMAIN d) \cup {k} |-> IF x = k THEN v ELSE d[x]]

\* The extract_field calls of lines 228-234, in evaluation order
RECURSIVE ExtractFields(_, _, _, _, _)
ExtractFields(self, ans, text, fts, rets) ==
  IF fts = <<>> THEN [self |-> self, rets |-> rets]
  ELSE
    LET f == ExtractField(self, ans, text, Head(fts)) IN
      ExtractFields(f.self, ans, text, Tail(fts), Append(rets, f.ret))

\* line 235: str(self.extract_amount(text)) if self.extract_amount(text) else None
AmountEntry(self, ans, text) ==
  LET cond == ExtractAmount(self, ans, text) IN
    IF cond.ret # None /\ DecimalTruthy(cond.ret[1])
    THEN LET val == ExtractAmount(cond.self, ans, text) IN
           [self |-> val.self, ret |-> Some(Str(DecimalStr(val.ret[1])))]
    ELSE [self |-> cond.self, ret |-> None]

\* lines 239-244
WithServiceMatch(self, extracted) ==
  LET d == extracted["service_description"]
      match == IF d # None /\ d[1].s # <<>>
               THEN MatchServiceTemplate(self, Some(d[1].s)) ELSE None
  IN IF match = None THEN extracted
     ELSE [k \in (DOMAIN extracted) \cup {"matched_service", "estimated_minutes"} |->
             CASE k = "matched_service" -> Some(NameVal(match[1].name))
               [] k = "estimated_minutes" -> Some(IntVal(match[1].minutes))
               [] OTHER -> extracted[k]]

\* InvoiceExtractor.extract_all (lines 225-247)
ExtractAll(self, ans, text) ==
  LET f == ExtractFields(LoadPatternsFromDb(self, ans), ans, text,
                         << "plate_number", "customer_name", "customer_phone",
                            "customer_email", "service_description",
                            "service_description", "quantity" >>, <<>>)
      amt == AmountEntry(f.self, ans, text)
      ref == ExtractField(amt.self, ans, text, "reference")
      extracted ==
        [k \in {"plate_number", "customer_name", "customer_phone",
                "customer_email", "service_description", "item_name",
                "quantity", "amount", "reference"} |->
           CASE k = "plate_number" -> OptStr(f.rets[1])
             [] k = "customer_name" -> OptStr(f.rets[2])
             [] k = "customer_phone" -> OptStr(f.rets[3])
             [] k = "customer_email" -> OptStr(f.rets[4])
             [] k = "service_description" -> OptStr(f.rets[5])
             [] k = "item_name" -> OptStr(f.rets[6])
             [] k = "quantity" -> OptStr(f.rets[7])
             [] k = "amount" -> amt.ret
             [] OTHER -> OptStr(ref.ret)]
  IN [self |-> ref.self, ret |-> DropNone(WithServiceMatch(ref.self, extracted))]

\* ------------------------------------------- process_invoice_extraction
ListVal(xs) == [t |-> "list", items |-> xs]
NoneVal == [t |-> "none"]
\* text[:n] of the text of the call
TextVal(n) == [t |-> "text", len |-> n]
ErrVal(msg) == [t |-> "err", msg |-> msg]

\* bool(v)
Truthy(v) ==
  CASE v.t = "str" -> v.s # <<>>
    [] v.t = "list" -> v.items # <<>>
    [] v.t = "text" -> v.len > 0
    [] v.t = "int" -> v.n # 0
    [] v.t = "none" -> FALSE
    [] OTHER -> TRUE

\* not d.get(k)
Falsy(d, k) == k \notin DOMAIN d \/ ~Truthy(d[k])

\* A removal of duplicates that keeps the last occurrences
DedupeKeepLast(xs) ==
  LET keep == { i \in 1..Len(xs) : \A j \in (i + 1)..Len(xs) : xs[j] # xs[i] }
      F[i \in 0..Len(xs)] ==
        IF i = 0 THEN <<>>
        ELSE IF i \in keep THEN Append(F[i - 1], xs[i]) ELSE F[i - 1]
  IN F[Len(xs)]

\* list(dict.fromkeys(xs)): first occurrences, in order
Dedupe(xs) ==
  LET keep == { i \in 1..Len(xs) : \A j \in 1..(i - 1) : xs[j] # xs[i] }
      F[i \in 0..Len(xs)] ==
        IF i = 0 THEN <<>>
        ELSE IF i \in keep THEN Append(F[i - 1], xs[i]) ELSE F[i - 1]
  IN F[Len(xs)]

\* lines 320-326: the rule-driven fields, gaps filled from the collaborator
MergeStructured(invoice_fields, doc_struct) ==
  LET fills(k) == k \in DOMAIN doc_struct /\ Falsy(invoice_fields, k)
                    /\ Truthy(doc_struct[k])
      joins(k) == k \in DOMAIN doc_struct /\ k \in DOMAIN invoice_fields
                    /\ doc_struct[k].t = "list" /\ invoice_fields[k].t = "list"
  IN [k \in (DOMAIN invoice_fields) \cup { x \in DOMAIN doc_struct : fills(x) } |->
        IF fills(k) THEN doc_struct[k]
        ELSE IF joins(k)
             THEN ListVal(Dedupe(invoice_fields[k].items \o doc_struct[k].items))
             ELSE invoice_fields[k]]

RawTextLimit == 10000
FallbackRawTextLimit == 5000

Min(a, b) == IF a < b THEN a ELSE b

\* lines 332-335 and 338-341: a key still falsy takes the stripped capture
EnrichFromText(merged, text, key, rx) ==
  IF Falsy(merged, key) /\ text.m[rx] # <<>>
  THEN Put(merged, key, Str(Strip(text.m[rx][1][1])))
  ELSE merged

Letters == {"A", "B", "C", "F", "O", "R", "T", "a", "b", "d", "e", "x"}

\* The class [A-Z0-9\s] under re.IGNORECASE
ForClass == Letters \cup Digits \cup Whitespace

\* Length of the longest run of characters of class cls in s from index i
RECURSIVE RunLen(_, _, _)
RunLen(s, i, cls) ==
  IF i <= Len(s) /\ s[i] \in cls THEN 1 + RunLen(s, i + 1, cls) ELSE 0

\* re.search(r'FOR\s+([A-Z0-9\s]+)', s, re.IGNORECASE) at index i: the
\* blanks are taken greedily and one is given back when nothing of the
\* class follows them
ForMatchAt(s, i) ==
  IF i + 3 > Len(s) \/ << s[i], s[i + 1], s[i + 2] >>
                         \notin ({"F", "f"} \X {"O", "o"} \X {"R", "r"})
  THEN None
  ELSE
    LET k == RunLen(s, i + 3, Whitespace)
        c == RunLen(s, i + 3 + k, ForClass)
    IN IF k >= 1 /\ c >= 1 THEN Some(SubSeq(s, i + 3 + k, i + 2 + k + c))
       ELSE IF k >= 2 THEN Some(SubSeq(s, i + 2 + k, i + 2 + k))
       ELSE None

\* group(1) of the leftmost match, or None
ForCapture(s) ==
  LET hits == { i \in 1..Len(s) : ForMatchAt(s, i) # None } IN
    IF hits = {} THEN None
    ELSE ForMatchAt(s, CHOOSE i \in hits : \A j \in hits : i <= j)

\* lines 344-348
PlateFromReference(merged) ==
  IF ~Falsy(merged, "reference") /\ Falsy(merged, "plate_number")
     /\ merged["reference"].t = "str"
     /\ ForCapture(merged["reference"].s) # None
  THEN Put(merged, "plate_number", Str(Strip(ForCapture(merged["reference"].s)[1])))
  ELSE merged

\* lines 351-352
PlateFromStruct(merged, doc_struct) ==
  IF Falsy(merged, "plate_number") /\ ~Falsy(doc_struct, "vehicle_plates")
  THEN Put(merged, "plate_number", doc_struct["vehicle_plates"].items[1])
  ELSE merged

\* ---- line items (lines 354-405)
\* it.get(k) or None: an empty string counts as missing
OrNone(o) == IF o = Some(<<>>) THEN None ELSE o

RemoveCommas(s) == LET NotComma(c) == c # "," IN SelectSeq(s, NotComma)

\* A _to_decimal that hands back the text it cannot convert
ToDecimalKeepsText(o) ==
  IF o = None THEN None
  ELSE LET s == Strip(RemoveCommas(o[1])) IN
         IF \E i \in 1..Len(s) : s[i] \notin Digits \cup {"."} THEN o
         ELSE IF ParseDecimal(s) = None THEN o ELSE ParseDecimal(s)

\* _to_decimal (lines 369-378) on None or Some(string); the strings are
\* made of digits, points, commas, blanks and letters that no decimal holds
ToDecimal(o) ==
  IF o = None THEN None
  ELSE LET s == Strip(RemoveCommas(o[1])) IN
         IF \E i \in 1..Len(s) : s[i] \notin Digits \cup {"."} THEN None
         ELSE ParseDecimal(s)

\* A normalization that numbers the items from 0
NormalizeItemFromZero(it, idx) ==
  LET code == IF it.code = None THEN <<>> ELSE Strip(it.code[1])
      desc == Strip(it.description)
  IN [line_no |-> idx - 1,
      code |-> IF code = <<>> THEN None ELSE Some(code),
      description |-> IF desc = <<>> THEN None ELSE Some(desc),
      qty |-> ToDecimal(it.qty),
      unit |-> None,
      rate |-> ToDecimal(OrNone(it.rate)),
      value |-> ToDecimal(OrNone(it.value))]

\* lines 362-388: one normalized item
NormalizeItem(it, idx) ==
  LET code == IF it.code = None THEN <<>> ELSE Strip(it.code[1])
      desc == Strip(it.description)
  IN [line_no |-> idx,
      code |-> IF code = <<>> THEN None ELSE Some(code),
      description |-> IF desc = <<>> THEN None ELSE Some(desc),
      qty |-> ToDecimal(it.qty),
      unit |-> None,
      rate |-> ToDecimal(OrNone(it.rate)),
      value |-> ToDecimal(OrNone(it.value))]

NormalizeItems(items) == [i \in 1..Len(items) |-> NormalizeItem(items[i], i)]

\* lines 355-367: the items of the merged map, else of the collaborator,
\* else what DocumentExtractor._extract_items finds in the text
ConsolidateItems(merged, doc_struct, text) ==
  IF "items" \in DOMAIN merged /\ merged["items"].t = "list"
  THEN merged["items"].items
  ELSE IF "items" \in DOMAIN doc_struct /\ doc_struct["items"].t = "list"
       THEN doc_struct["items"].items
       ELSE text.items

\* lines 404-405
WithItems(merged, doc_struct, text) ==
  IF ConsolidateItems(merged, doc_struct, text) # <<>>
  THEN Put(merged, "items",
           ListVal(NormalizeItems(ConsolidateItems(merged, doc_struct, text))))
  ELSE merged

\* lines 409-417: a total found in the text is written whatever the map holds
WithTotal(merged, text, key, rx) ==
  IF text.m[rx] # <<>>
  THEN Put(merged, key, Str(Strip(RemoveCommas(text.m[rx][1][1]))))
  ELSE merged

\* line 422: the first truthy of three keys, or None
ServiceDesc(merged) ==
  IF ~Falsy(merged, "service_description") THEN Some(merged["service_description"])
  ELSE IF ~Falsy(merged, "item_name") THEN Some(merged["item_name"])
  ELSE IF ~Falsy(merged, "description") THEN Some(merged["description"])
  ELSE None

\* lines 423-427
WithTemplateMatch(self, merged) ==
  LET match == IF ServiceDesc(merged) # None /\ ServiceDesc(merged)[1].t = "str"
               THEN MatchServiceTemplate(self, Some(ServiceDesc(merged)[1].s))
               ELSE None
  IN IF match = None THEN merged
     ELSE Put(Put(merged, "matched_service", NameVal(match[1].name)),
              "estimated_minutes", IntVal(match[1].minutes))

\* lines 329-352
EnrichPlate(merged, doc_struct, text) ==
  PlateFromStruct(
    PlateFromReference(
      EnrichFromText(
        EnrichFromText(
          Put(merged, "raw_text", TextVal(Min(text.len, RawTextLimit))),
          text, "code_no", "e_code"),
        text, "reference", "e_ref")),
    doc_struct)

\* lines 408-419
WithTotals(merged, text) ==
  WithTotal(WithTotal(WithTotal(merged, text, "vat_amount", "e_vat"),
                      text, "net_value", "e_net"),
            text, "gross_value", "e_gross")

\* lines 315-429: the merge block
MergeAndEnrich(self, invoice_fields, doc_struct, text) ==
  WithTemplateMatch(self,
    WithTotals(
      WithItems(EnrichPlate(MergeStructured(invoice_fields, doc_struct),
                            doc_struct, text),
                doc_struct, text),
      text))

\* ---- the document and the text-acquisition collaborator
\* File name suffixes, lower case: line 275 and document_extraction.py line 80
OrchestratorImageExts == {".png", ".jpg", ".jpeg", ".gif", ".bmp"}
CollaboratorImageExts == {".jpg", ".jpeg", ".png", ".bmp", ".tiff"}

ImageDisabledMsg == "Image extraction disabled. Please upload a PDF or text-based document."
OcrDisabledMsg == "OCR disabled: image-to-text extraction is not available. Please provide a PDF or text-based document instead."
UnsupportedMsg == "Unsupported file type"
ExtractionFailedMsg == "Extraction failed"
NoTextMsg == "Could not extract text from document"
\* str() of the AttributeError of None.lower() when the scan has no file
NoNameMsg == "'NoneType' object has no attribute 'lower'"
PdfErrorMsg == "PDF extraction error"
\* str() of an exception no step is written to expect
UnexpectedMsg == "unexpected exception"

CollabFailure(err) ==
  [success |-> FALSE, raw_text |-> EmptyText, structured_data |-> None, error |-> err]

CollabSuccess(text, sd) ==
  [success |-> TRUE, raw_text |-> text, structured_data |-> sd, error |-> None]

\* A collaborator that reads images: they succeed with whatever text
ExtractFromFileWithOcr(ext, pdf) ==
  IF ext = ".pdf" THEN pdf
  ELSE IF ext \in CollaboratorImageExts THEN CollabSuccess(EmptyText, None)
  ELSE CollabFailure(Some(UnsupportedMsg))

\* DocumentExtractor.extract_from_file: pdf is what _extract_from_pdf returns
ExtractFromFile(ext, pdf) ==
  IF ext = ".pdf" THEN pdf
  ELSE IF ext \in CollaboratorImageExts THEN CollabFailure(Some(OcrDisabledMsg))
  ELSE CollabFailure(Some(UnsupportedMsg))

\* ---- the outcome of a call: the returned map, whether the call raised,
\* how often extract_all was invoked, whether the merge block completed,
\* and the maps invoice_fields (line 317) and merged as the loop of lines
\* 320-326 left it
Outcome(ret, calls, merged) ==
  [ret |-> ret, raised |-> FALSE, extract_all_calls |-> calls, merged |-> merged,
   invoice_fields |-> <<>>, after_merge |-> <<>>]

ErrorMap(msg) == [k \in {"error"} |-> ErrVal(msg)]

\* An exception that leaves the call
Propagates(msg, calls) ==
  [ret |-> <<>>, raised |-> TRUE, extract_all_calls |-> calls, merged |-> FALSE,
   invoice_fields |-> <<>>, after_merge |-> <<>>]

\* lines 443-445: except Exception as e: return {'error': str(e)}
OuterExcept(msg, calls) == Outcome(ErrorMap(msg), calls, FALSE)

\* An acquisition without the decode fallback of lines 303-309
AcquireTextNoFallback(in) ==
  IF in.path = "raise" THEN [k |-> "return", msg |-> UnexpectedMsg]
  ELSE
    LET result == ExtractFromFile(in.name[1], in.collab) IN
      IF result.success
      THEN [k |-> "text", text |-> result.raw_text, result |-> Some(result)]
      ELSE [k |-> "return",
            msg |-> IF result.error = None THEN ExtractionFailedMsg
                    ELSE result.error[1]]

\* lines 281-309: the text and the collaborator's result, or the map to
\* return at once
AcquireText(in) ==
  IF in.path = "raise"
  THEN IF in.decode = None
       THEN [k |-> "return", msg |-> NoTextMsg]
       ELSE [k |-> "text", text |-> in.decode[1], result |-> None]
  ELSE
    LET result == ExtractFromFile(in.name[1], in.collab) IN
      IF result.success
      THEN [k |-> "text", text |-> result.raw_text, result |-> Some(result)]
      ELSE [k |-> "return",
            msg |-> IF result.error = None THEN ExtractionFailedMsg
                    ELSE result.error[1]]

\* A fallback that cuts the text where the merge block cuts it
FallbackFieldsLong(invoice_fields, text) ==
  Put(invoice_fields, "raw_text", TextVal(Min(text.len, RawTextLimit)))

\* lines 431-433 and 437-439: the map of extract_all and the first 5000
\* characters
FallbackFields(invoice_fields, text) ==
  Put(invoice_fields, "raw_text", TextVal(Min(text.len, FallbackRawTextLimit)))

\* line 316: result.get('structured_data', {}) or {}
DocStructOf(result) ==
  IF result.structured_data = None THEN <<>> ELSE result.structured_data[1]

\* lines 312-441 given what extract_all returns for the text; an unexpected
\* exception in the block runs the handler of lines 435-439, which calls
\* extract_all again
MergeOutcome(in, acq, ea) ==
  IF in.fault # "none"
  THEN IF in.fault_recover THEN OuterExcept(UnexpectedMsg, 2)
       ELSE Outcome(FallbackFields(ea.ret, acq.text), 2, FALSE)
  ELSE IF acq.result = None
  THEN Outcome(FallbackFields(ea.ret, acq.text), 1, FALSE)
  ELSE [Outcome(MergeAndEnrich(ea.self, ea.ret, DocStructOf(acq.result[1]),
                               acq.text), 1, TRUE)
          EXCEPT !.invoice_fields = ea.ret,
                 !.after_merge = MergeStructured(ea.ret, DocStructOf(acq.result[1]))]

MergePhase(in, acq) ==
  MergeOutcome(in, acq, ExtractAll(NewExtractor, in.ans, acq.text))

\* process_invoice_extraction (lines 260-445)
ProcessInvoiceExtraction(in) ==
  IF in.name = None THEN OuterExcept(NoNameMsg, 0)
  ELSE IF in.name[1] \in OrchestratorImageExts
  THEN Outcome(ErrorMap(ImageDisabledMsg), 0, FALSE)
  ELSE
    LET acq == AcquireText(in) IN
      IF acq.k = "return" THEN Outcome(ErrorMap(acq.msg), 0, FALSE)
      ELSE MergePhase(in, acq)

\* ---- the inputs of a call
\* Texts a document may hold: the empty text, and texts in which the
\* built-in rules and the enrichment regexes find values, blanks or nothing
PieTexts ==
  { MkText(TextLen, <<>>, <<>>, v, ev, IF ev = "values" THEN SampleItems ELSE <<>>) :
      v \in DefaultVariants, ev \in EnrichVariants }
  \cup {EmptyText}

\* Items a collaborator may report: the sample items and one whose code is
\* blank, whose qty is no number and whose rate is empty
CollabItems ==
  SampleItems \o
  << Item(<<"C">>, Some(<<" ">>), Some(<<"x">>), Some(<<>>), Some(<<"1", ",", "5">>)) >>

\* DocumentExtractor._parse_amount_str (document_extraction.py 446-458):
\* letters, currency signs, commas and blanks are dropped, ( becomes -, and
\* the leftmost -?\d+\.?\d* is returned; None when there is no digit
ParseAmountStr(s) ==
  LET kept == FilterSeq(s, Digits \cup {".", "-", "(", ")"})
      cleaned == FilterSeq([i \in 1..Len(kept) |->
                              IF kept[i] = "(" THEN "-" ELSE kept[i]],
                           Digits \cup {".", "-"})
      digits == { i \in 1..Len(cleaned) : cleaned[i] \in Digits }
  IN IF digits = {} THEN None
     ELSE
       LET d == CHOOSE i \in digits : \A j \in digits : i <= j
           from == IF d > 1 /\ cleaned[d - 1] = "-" THEN d - 1 ELSE d
           n == RunLen(cleaned, d, Digits)
           frac == IF d + n <= Len(cleaned) /\ cleaned[d + n] = "."
                   THEN 1 + RunLen(cleaned, d + n + 1, Digits) ELSE 0
       IN Some(SubSeq(cleaned, from, d + n + frac - 1))

\* _parse_text lines 294-304: a total the collaborator's regex captures is
\* stored as _parse_amount_str makes it, None included.  Its regexes find
\* what those of lines 409-415 find.
WithParsedTotal(structured, text, key, rx) ==
  IF text.m[rx] # <<>> /\ Strip(text.m[rx][1][1]) # <<>>
  THEN Put(structured, key,
           IF ParseAmountStr(Strip(text.m[rx][1][1])) = None THEN NoneVal
           ELSE Str(ParseAmountStr(Strip(text.m[rx][1][1]))[1]))
  ELSE structured

WithParsedTotals(structured, text) ==
  WithParsedTotal(WithParsedTotal(WithParsedTotal(structured, text,
                                                  "vat_amount", "e_vat"),
                                  text, "gross_value", "e_gross"),
                  text, "net_value", "e_net")

\* The other keys of structured_data, by variant: keywords only, a value
\* for every modelled key, empty values
DocStructBase(variant) ==
  CASE variant = "minimal" -> [k \in {"keywords"} |-> ListVal(<<>>)]
    [] variant = "full" ->
         [k \in {"keywords", "customer_name", "service_description",
                 "vehicle_plates", "items"} |->
            CASE k = "keywords" -> ListVal(<< Str(<<"b">>) >>)
              [] k = "customer_name" -> Str(<<"C", " ", "d">>)
              [] k = "service_description" -> Str(<<"b", " ", "x">>)
              [] k = "vehicle_plates" ->
                   ListVal(<< Str(<<"T", " ", "9">>), Str(<<"T", " ", "8">>) >>)
              [] OTHER -> ListVal(CollabItems)]
    [] OTHER ->
         [k \in {"keywords", "customer_name", "vehicle_plates", "items"} |->
            CASE k = "customer_name" -> Str(<<>>)
              [] OTHER -> ListVal(<<>>)]

\* structured_data of a successful result for a text: missing ("absent"),
\* or the keys of the variant and the totals found in the text
DocStruct(variant, text) ==
  IF variant = "absent" THEN None
  ELSE Some(WithParsedTotals(DocStructBase(variant), text))

DocStructVariants(text) ==
  IF text = EmptyText THEN {"absent", "minimal"}
  ELSE {"absent", "minimal", "full", "nulls"}

\* A store answer for the calls that never read the store
NoAnswer == [rows |-> <<>>, tmpls |-> <<>>, fault |-> [phase |-> "none", k |-> 0]]

\* A document scan and its environment: the lower-case suffix of file.name
\* (None: no file), file.path ("ok"), the temporary copy ("tmp") or an
\* exception before the collaborator answers ("raise"), what
\* _extract_from_pdf returns, file.read().decode('utf-8') (None: it
\* raises), the store's answer, an unexpected exception in the merge block
\* and in its handler
PieInput(name, path, collab, decode, ans, fault, fault_recover) ==
  [name |-> name, path |-> path, collab |-> collab, decode |-> decode,
   ans |-> ans, fault |-> fault, fault_recover |-> fault_recover]

NoInput == PieInput(None, "ok", CollabFailure(None), None, NoAnswer, "none", FALSE)

\* fault and fault_recover: the handler runs only after a fault
Faults == { <<"none", FALSE>>, <<"merge", FALSE>>, <<"merge", TRUE>> }

\* The calls that end before any text is acquired
PieInputsNoText ==
  {NoInput}
  \cup { PieInput(Some(e), "ok", CollabFailure(None), None, NoAnswer, "none", FALSE) :
           e \in {".png", ".gif"} }
  \cup { PieInput(Some(e), p, CollabFailure(None), None, NoAnswer, "none", FALSE) :
           e \in {".tiff", ".txt"}, p \in {"ok", "tmp"} }
  \cup { PieInput(Some(".pdf"), p, CollabFailure(err), None, NoAnswer, "none", FALSE) :
           p \in {"ok", "tmp"}, err \in {None, Some(PdfErrorMsg)} }
  \cup { PieInput(Some(e), "raise", CollabFailure(None), None, NoAnswer, "none", FALSE) :
           e \in {".pdf", ".tiff", ".txt"} }

\* The calls on a PDF the collaborator reads; the temporary copy is read
\* like the file itself, and is sampled without faults
PieInputsPdf(answers) ==
  UNION { { PieInput(Some(".pdf"), pf[1], CollabSuccess(text, DocStruct(dv, text)), None,
                     ans, pf[2][1], pf[2][2]) :
              dv \in DocStructVariants(text), ans \in answers,
              pf \in ({"ok"} \X Faults) \cup {<<"tmp", <<"none", FALSE>> >>} } :
          text \in PieTexts }

\* The calls that fall back to decoding the file, whatever its suffix
PieInputsDecoded(answers) ==
  { PieInput(Some(ef[1]), "raise", CollabFailure(None), Some(text), ans,
             ef[2][1], ef[2][2]) :
      text \in PieTexts, ans \in answers,
      ef \in ({".pdf"} \X Faults) \cup {<<".tiff", <<"none", FALSE>> >>} }

PieInputs(answers) ==
  PieInputsNoText \cup PieInputsPdf(answers) \cup PieInputsDecoded(answers)

\* ------------------------------------------ documents and their extraction
\* DocumentScan ids: document 1 exists from the start, document 2 is the one
\* the upload_document action creates
DocIds == {1, 2}

\* The threads start_extraction_task starts
WorkerIds == {1, 2}

\* How many of the calls a run makes to the database or the cache may raise
MaxFaults == 1

\* str() of the exceptions of the database and of the cache
DbErrorMsg == "database error"
CacheErrorMsg == "cache error"

\* The line items of the invoice that is read
MaxItems == 2

\* The files of the documents: an image, a PDF that cannot be read, a PDF
\* with fields and line items
TaskFiles == {"scan.png", "broken.pdf", "invoice.pdf"}

\* extracted_data as its callers read it: the error, the number of items
Data(error, items) == [error |-> error, items |-> items]

NoData == Data(None, 0)

\* What process_invoice_extraction returns for a file: the error of line
\* 278, the collaborator's error (line 302), or fields with items
ExtractedData(file) ==
  CASE file = "scan.png" -> Data(Some(ImageDisabledMsg), 0)
    [] file = "broken.pdf" -> Data(Some(PdfErrorMsg), 0)
    [] OTHER -> Data(None, MaxItems)

\* models.py lines 436-447
ExtractionStatuses == {"pending", "processing", "completed", "failed"}

\* A DocumentScan row with the number of DocumentExtraction and
\* DocumentExtractionItem rows that point to it
DocRow(present, status, in) ==
  [present |-> present, extraction_status |-> status, extraction_error |-> None,
   file |-> in, extractions |-> 0, items |-> 0]

NoDoc == DocRow(FALSE, "pending", "")

\* The instance a thread or a view holds: the fields it saves
Instance(row) ==
  [extraction_status |-> row.extraction_status,
   extraction_error |-> row.extraction_error]

\* No thread: its position, its argument, its doc_scan and extracted_data,
\* the exception it handles, the rows it created, the calls that raised, and
\* whether it saved status 'processing'
NoWorker ==
  [pc |-> "idle", id |-> 0, doc_scan |-> Instance(NoDoc), data |-> NoData,
   e |-> None, created |-> 0, created_items |-> 0, faults |-> 0,
   saved_processing |-> FALSE]

\* The upload_document action has not run
NoUpload == [done |-> FALSE, data |-> NoData, rolled_back |-> FALSE]

\* No documents, nothing cached
NoDb ==
  [docs |-> [d \in DocIds |-> NoDoc], progress |-> [d \in DocIds |-> None],
   upload |-> NoUpload]

\* The calls of process_invoice_extraction that run at the same time
CallIds == {1, 2}

\* No call: its position, its document, its extractor (line 270), the text
\* it acquired, what extract_all returned, and what the call returned
NoPieCall ==
  [pc |-> "idle", in |-> NoInput, extractor |-> NewExtractor,
   acq |-> [k |-> "none"], invoice_fields |-> <<>>, out |-> Outcome(<<>>, 0, FALSE)]

\* ------------------------------------------------------------------ state
VARIABLES
  store_patterns,     \* InvoicePatternMatcher table
  store_templates,    \* ServiceTemplate table
  patterns,           \* InvoiceExtractor.patterns
  service_templates,  \* InvoiceExtractor.service_templates
  patterns_loaded,    \* InvoiceExtractor._patterns_loaded
  store_reads,        \* how often this instance has read the store
  load_failed,        \* whether a read of the store by this instance raised
  last,               \* the last call on the instance and what it returned
  scan,               \* the last call of process_invoice_extraction
  app,                \* a function of the pipeline applied to an argument
  db,                 \* DocumentScan rows, their extraction records, the cache
  workers,            \* the threads of start_extraction_task
  calls               \* the calls of process_invoice_extraction under way

\* The shared InvoiceExtractor instance and the store it reads
instance_vars ==
  << store_patterns, store_templates, patterns, service_templates,
     patterns_loaded, store_reads, load_failed, last >>

\* What a call on the shared instance leaves alone
other_vars == << scan, app, db, workers, calls >>

\* The documents and the threads that extract them
task_vars == << db, workers >>

vars == << instance_vars, scan, app, db, workers, calls >>

\* The instance as the operators see it
Self ==
  [patterns |-> patterns, service_templates |-> service_templates,
   loaded |-> patterns_loaded, reads |-> store_reads]

Stores ==
  { st \in (SUBSET PatternRowUniverse) \X (SUBSET TemplateRowUniverse) :
      Cardinality(st[1]) + Cardinality(st[2]) <= MaxRows }

NoCall ==
  [op |-> "none", text |-> EmptyText, field_type |-> "", ret |-> None,
   pre_loaded |-> FALSE, reads |-> 0, description |-> None]

\* No function is being applied
NoApp == [op |-> "none", arg |-> <<>>, ret |-> None]

NoScan == [op |-> "none", in |-> NoInput, out |-> Outcome(<<>>, 0, FALSE)]

\* A fresh instance over some configuration store
Init ==
  /\ \E st \in Stores : store_patterns = st[1] /\ store_templates = st[2]
  /\ patterns = NewExtractor.patterns
  /\ service_templates = NewExtractor.service_templates
  /\ patterns_loaded = NewExtractor.loaded
  /\ store_reads = NewExtractor.reads
  /\ load_failed = FALSE
  /\ last = NoCall
  /\ scan = NoScan
  /\ app = NoApp
  /\ db = NoDb
  /\ workers = [w \in WorkerIds |-> NoWorker]
  /\ calls = [c \in CallIds |-> NoPieCall]

\* The field types callers ask for: with and without built-in rules, with
\* and without configured rules
CallFieldTypes == {"plate_number", "customer_name", "amount", "date"}

\* The instance after a call, and the record of the call
Returned(op, text, ft, ans, r) ==
  /\ patterns' = r.self.patterns
  /\ service_templates' = r.self.service_templates
  /\ patterns_loaded' = r.self.loaded
  /\ store_reads' = r.self.reads
  /\ load_failed' = (load_failed \/ (r.self.reads > store_reads /\ ans.fault.phase # "none"))
  /\ last' = [op |-> op, text |-> text, field_type |-> ft, ret |-> r.ret,
              pre_loaded |-> patterns_loaded, reads |-> r.self.reads - store_reads,
              description |-> None]
  /\ UNCHANGED << store_patterns, store_templates, other_vars >>

CallExtractField ==
  /\ last.op = "none"
  /\ store_reads < MaxLoads
  /\ \E text \in Texts, ft \in CallFieldTypes,
        ans \in StoreAnswers(store_patterns, store_templates) :
       Returned("extract_field", text, ft, ans, ExtractField(Self, ans, text, ft))

CallExtractAmount ==
  /\ last.op = "none"
  /\ store_reads < MaxLoads
  /\ \E text \in Texts, ans \in StoreAnswers(store_patterns, store_templates) :
       Returned("extract_amount", text, "amount", ans, ExtractAmount(Self, ans, text))

CallExtractAll ==
  /\ last.op = "none"
  /\ store_reads < MaxLoads
  /\ \E text \in Texts, ans \in StoreAnswers(store_patterns, store_templates) :
       Returned("extract_all", text, "", ans, ExtractAll(Self, ans, text))

\* Descriptions callers pass to match_service_template: None, '', and
\* texts with one or both keywords of a template, of two templates, of none
Descriptions ==
  { None, Some(<<>>), Some(<<"b">>), Some(<<"A", " ", "b">>),
    Some(<<"x", "b">>), Some(<<"d">>) }

\* match_service_template reads self.service_templates as it is: it does
\* not load the configuration
CallMatchServiceTemplate ==
  /\ last.op = "none"
  /\ \E d \in Descriptions :
       last' = [op |-> "match_service_template", text |-> EmptyText,
                field_type |-> "", ret |-> MatchServiceTemplate(Self, d),
                pre_loaded |-> patterns_loaded, reads |-> 0, description |-> d]
  /\ UNCHANGED << store_patterns, store_templates, patterns, service_templates,
                  patterns_loaded, store_reads, load_failed, other_vars >>

\* The caller is done with the returned value; the instance stays in use
DropResult ==
  /\ last.op # "none"
  /\ last' = NoCall
  /\ UNCHANGED << store_patterns, store_templates, patterns, service_templates,
                  patterns_loaded, store_reads, load_failed, other_vars >>

Next ==
  \/ CallExtractField
  \/ CallExtractAmount
  \/ CallExtractAll
  \/ CallMatchServiceTemplate
  \/ DropResult

Spec == Init /\ [][Next]_vars

\* A document scan is processed with an extractor of its own (line 270);
\* the shared instance is not touched
CallProcessInvoiceExtraction ==
  /\ scan.op = "none"
  /\ \E in \in PieInputs(StoreAnswers(store_patterns, store_templates)) :
       scan' = [op |-> "process_invoice_extraction", in |-> in,
                out |-> ProcessInvoiceExtraction(in)]
  /\ UNCHANGED << instance_vars, app, task_vars, calls >>

\* The caller is done with the returned map
DropScan ==
  /\ scan.op # "none"
  /\ scan' = NoScan
  /\ UNCHANGED << instance_vars, app, task_vars, calls >>

NextPIE == CallProcessInvoiceExtraction \/ DropScan

SpecPIE == Init /\ [][NextPIE]_vars

\* ======================================================================
\* Properties of the rule-driven extractor (specification Spec)
\* ======================================================================

\* What a rule captures in a text: None when its pattern does not compile,
\* does not match, lacks the configured group, or the group is None or ''
RuleCapture(rule, text) ==
  IF /\ ValidRegex(rule.regex)
     /\ text.m[rule.regex] # <<>>
     /\ rule.group <= Len(text.m[rule.regex])
     /\ text.m[rule.regex][rule.group] # None
     /\ text.m[rule.regex][rule.group][1] # <<>>
  THEN text.m[rule.regex][rule.group] ELSE None

RuleRaises(rule, text) ==
  \/ ~ValidRegex(rule.regex)
  \/ text.m[rule.regex] # <<>> /\ rule.group > Len(text.m[rule.regex])

SeqRange(s) == { s[i] : i \in 1..Len(s) }

\* The rules that apply to the field type of the last call: the configured
\* active rows of that type, else the built-in rules of that type.  After a
\* failed load, what the instance had cached when the load raised.
Candidates ==
  LET ft == last.field_type
      configured == { Rule(r.name, r.regex_pattern, r.extract_group, r.priority) :
                        r \in { x \in store_patterns :
                                  x.is_active /\ x.field_type = ft } }
      cached == IF ft \in DOMAIN patterns THEN SeqRange(patterns[ft]) ELSE {}
      chosen == IF load_failed THEN cached ELSE configured
  IN IF chosen # {} THEN chosen ELSE SeqRange(DefaultPatternsGet(ft))

\* C1: extract_field returns the (trimmed) capture of a rule of the field
\* type such that no rule of strictly lower priority value captures
\* anything, and None exactly when no rule of the field type captures.
C1_PriorityOrder ==
  last.op = "extract_field" =>
    /\ (last.ret = None) <=> (\A r \in Candidates : RuleCapture(r, last.text) = None)
    /\ last.ret # None =>
         \E r \in Candidates :
           /\ RuleCapture(r, last.text) # None
           /\ last.ret = Some(Strip(RuleCapture(r, last.text)[1]))
           /\ \A q \in Candidates :
                q.priority < r.priority => RuleCapture(q, last.text) = None

\* Rules of priority 10 and 20 both capture; the priority-10 capture is returned
C1_Witness ==
  /\ last.op = "extract_field"
  /\ ~load_failed
  /\ \E r \in Candidates, q \in Candidates :
       /\ r.priority = 10 /\ q.priority = 20
       /\ RuleCapture(r, last.text) # None
       /\ RuleCapture(q, last.text) # None
       /\ Strip(RuleCapture(r, last.text)[1]) # Strip(RuleCapture(q, last.text)[1])
       /\ last.ret = Some(Strip(RuleCapture(r, last.text)[1]))

\* The calls that load the configuration on first use
LoadingCalls == {"extract_field", "extract_amount", "extract_all"}

\* C2: an instance reads the configuration store at most once; after any
\* extract_field, extract_amount or extract_all call the guard is set, and
\* a call that found the guard set read nothing, also when the one read
\* raised.
C2_LoadAtMostOnce ==
  /\ store_reads <= 1
  /\ last.op \in LoadingCalls =>
       /\ patterns_loaded
       /\ store_reads = 1
       /\ last.reads = (IF last.pre_loaded THEN 0 ELSE 1)

\* A call made after a load that raised
C2_Witness ==
  /\ last.op \in LoadingCalls
  /\ last.pre_loaded
  /\ load_failed
  /\ store_reads = 1

\* The first capture of a list of rules, trimmed
FirstCapture(rules, text) ==
  IF \A i \in 1..Len(rules) : RuleCapture(rules[i], text) = None THEN None
  ELSE LET i == CHOOSE j \in 1..Len(rules) :
                  /\ RuleCapture(rules[j], text) # None
                  /\ \A k \in 1..(j - 1) : RuleCapture(rules[k], text) = None
       IN Some(Strip(RuleCapture(rules[i], text)[1]))

IsEmptyValue(v) ==
  CASE v.t = "str" -> v.s = <<>>
    [] v.t = "list" -> v.items = <<>>
    [] v.t = "text" -> v.len = 0
    [] v.t = "none" -> TRUE
    [] OTHER -> FALSE

\* C8: no key of a map returned by extract_all has an empty value.
C8_NoEmptyValue ==
  last.op = "extract_all" =>
    \A k \in DOMAIN last.ret : ~IsEmptyValue(last.ret[k])

\* C9: extract_field never returns an empty string.
C9_NeverEmptyString ==
  last.op = "extract_field" => last.ret # Some(<<>>)

\* C10: when a rule of the field type raises, the rules after it are still
\* tried: a rule that captures is not masked by a raising rule before it,
\* and the result is None only when no rule captures.
C10_RaisingRuleSkipped ==
  (last.op = "extract_field" /\ \E r \in Candidates : RuleRaises(r, last.text)) =>
    /\ (\E q \in Candidates : RuleCapture(q, last.text) # None) => last.ret # None
    /\ last.ret # None =>
         \E q \in Candidates :
           /\ RuleCapture(q, last.text) # None
           /\ last.ret = Some(Strip(RuleCapture(q, last.text)[1]))

\* A rule raises and a rule of higher priority value supplies the result
C10_Witness ==
  /\ last.op = "extract_field"
  /\ \E r \in Candidates, q \in Candidates :
       /\ RuleRaises(r, last.text)
       /\ r.priority < q.priority
       /\ RuleCapture(q, last.text) # None
       /\ last.ret = Some(Strip(RuleCapture(q, last.text)[1]))
       /\ last.ret # Some(<<>>)

\* ----------------------------------------------------------------------
\* Claims about process_invoice_extraction, checked under SpecPIE
Called == scan.op = "process_invoice_extraction"

IsErrorOnly(ret) == DOMAIN ret = {"error"}

\* C4: every call returns a map and never raises, and the map either has
\* the key 'error' and no other key or has no key 'error'.
C4_ErrorOrFields ==
  Called =>
    /\ ~scan.out.raised
    /\ ("error" \in DOMAIN scan.out.ret => IsErrorOnly(scan.out.ret))

\* An exception reached the outer handler after extract_all had run, and
\* the call returned the error alone
C4_Witness ==
  /\ Called
  /\ scan.in.fault = "merge" /\ scan.in.fault_recover
  /\ scan.out.extract_all_calls > 0
  /\ scan.out.ret = ErrorMap(UnexpectedMsg)

\* The steps of the call that raised an exception the step does not expect
AcquisitionRaised ==
  /\ Called /\ scan.in.name # None
  /\ scan.in.name[1] \notin OrchestratorImageExts
  /\ scan.in.path = "raise"

MergeBlockRaised ==
  /\ Called /\ scan.in.name # None
  /\ scan.in.name[1] \notin OrchestratorImageExts
  /\ AcquireText(scan.in).k = "text"
  /\ scan.in.fault = "merge"

RecoveredMap(text) ==
  FallbackFields(ExtractAll(NewExtractor, scan.in.ans, text).ret, text)

CollaboratorFailed ==
  /\ Called /\ scan.in.name # None
  /\ scan.in.name[1] \notin OrchestratorImageExts
  /\ scan.in.path # "raise"
  /\ ~ExtractFromFile(scan.in.name[1], scan.in.collab).success

ImageByName ==
  Called /\ scan.in.name # None /\ scan.in.name[1] \in OrchestratorImageExts

\* An image by its suffix that line 275 lets through to the collaborator
ImageFedToCollaborator ==
  /\ Called /\ scan.in.name # None
  /\ scan.in.name[1] \in CollaboratorImageExts \ OrchestratorImageExts
  /\ scan.in.path # "raise"

C7_EmptyTextIsError ==
  ( /\ Called /\ scan.in.name = Some(".pdf") /\ scan.in.path # "raise"
    /\ scan.in.collab.success /\ scan.in.collab.raw_text.len = 0 )
  => (IsErrorOnly(scan.out.ret) /\ scan.out.extract_all_calls = 0)

\* ----------------------------------------------------------------------
\* How many keywords of entry i of the template cache occur in the
\* lower-cased description d
KeywordHits(i, d) ==
  Cardinality({ n \in 1..Len(service_templates[i].keywords) :
                  IsSubstring(service_templates[i].keywords[n], Lower(d)) })

\* C11: match_service_template returns the name and minutes of the template
\* with the most keyword hits, the first in load order among equals, and
\* None when no template has a hit (or the description is empty).
C11_BestTemplateFirstWins ==
  last.op = "match_service_template" =>
    LET n == Len(service_templates)
        d == IF last.description = None THEN <<>> ELSE last.description[1]
        best == { i \in 1..n : KeywordHits(i, d) > 0
                               /\ \A j \in 1..n : KeywordHits(j, d) <= KeywordHits(i, d) }
    IN IF d = <<>> \/ best = {} THEN last.ret = None
       ELSE \E i \in best :
              /\ \A j \in best : i <= j
              /\ last.ret = Some([name |-> service_templates[i].name,
                                  minutes |-> service_templates[i].minutes])

\* Two templates have one hit each and the first loaded is returned
C11_Witness ==
  /\ last.op = "match_service_template"
  /\ last.description = Some(<<"b">>)
  /\ Len(service_templates) = 2
  /\ KeywordHits(1, <<"b">>) = 1 /\ KeywordHits(2, <<"b">>) = 1
  /\ last.ret = Some([name |-> service_templates[1].name,
                      minutes |-> service_templates[1].minutes])

\* The template with more hits is returned though it was loaded second
C11_WitnessGreatest ==
  /\ last.op = "match_service_template"
  /\ Len(service_templates) = 2
  /\ last.ret = Some([name |-> service_templates[2].name,
                      minutes |-> service_templates[2].minutes])

\* ----------------------------------------------------------------------
\* DocumentExtractor._calculate_confidence (document_extraction.py 602-620)
MaxListLen == 2

\* The checks dict in its order: field and score
ConfidenceChecks ==
  << [field |-> "phone_numbers", score |-> 20],
     [field |-> "emails", score |-> 20],
     [field |-> "vehicle_plates", score |-> 30],
     [field |-> "vehicle_makes", score |-> 15],
     [field |-> "amounts", score |-> 15] >>

ConfidenceFields == { ConfidenceChecks[i].field : i \in 1..Len(ConfidenceChecks) }

\* structured_data.get(field, [])
GetList(structured_data, field) ==
  IF field \in DOMAIN structured_data THEN structured_data[field] ELSE <<>>

\* lines 615-618: the loop over checks.items()
RECURSIVE ConfidenceLoop(_, _, _, _)
ConfidenceLoop(checks, structured_data, confidence, max_score) ==
  IF checks = <<>> THEN [confidence |-> confidence, max_score |-> max_score]
  ELSE ConfidenceLoop(Tail(checks), structured_data,
                      IF Len(GetList(structured_data, Head(checks).field)) > 0
                      THEN confidence + Head(checks).score ELSE confidence,
                      max_score + Head(checks).score)

\* int(confidence / max_score * 100) in double precision: with max_score =
\* 100 the quotient times 100 falls just below confidence for 29, 57 and 58
\* and truncates to one less; every other confidence of 0..100 comes back
IntPercent(confidence, max_score) ==
  IF max_score = 100 /\ confidence \in {29, 57, 58} THEN confidence - 1
  ELSE (confidence * 100) \div max_score

\* A score that counts the keys present, empty lists included
CalculateConfidenceByKey(structured_data) ==
  ConfidenceLoop(ConfidenceChecks,
                 [f \in DOMAIN structured_data |-> <<"v">>], 0, 0).confidence

CalculateConfidence(structured_data) ==
  LET r == ConfidenceLoop(ConfidenceChecks, structured_data, 0, 0) IN
    Min(100, IF r.max_score > 0 THEN IntPercent(r.confidence, r.max_score) ELSE 0)

\* Lists of up to MaxListLen entries
SampleLists == { [i \in 1..n |-> "v"] : n \in 0..MaxListLen }

\* Structured-data maps: each category missing, empty or filled
StructuredDatas == UNION { [S -> SampleLists] : S \in SUBSET ConfidenceFields }

InitConfidence ==
  /\ store_patterns = {} /\ store_templates = {}
  /\ patterns = NewExtractor.patterns
  /\ service_templates = NewExtractor.service_templates
  /\ patterns_loaded = NewExtractor.loaded
  /\ store_reads = NewExtractor.reads
  /\ load_failed = FALSE
  /\ last = NoCall
  /\ scan = NoScan
  /\ db = NoDb
  /\ workers = [w \in WorkerIds |-> NoWorker]
  /\ calls = [c \in CallIds |-> NoPieCall]
  /\ \E sd \in StructuredDatas :
       app = [op |-> "_calculate_confidence", arg |-> sd, ret |-> None]

ScoreConfidence ==
  /\ app.op = "_calculate_confidence" /\ app.ret = None
  /\ app' = [app EXCEPT !.ret = Some(CalculateConfidence(app.arg))]
  /\ UNCHANGED << instance_vars, scan, task_vars, calls >>

NextConfidence == ScoreConfidence

SpecConfidence == InitConfidence /\ [][NextConfidence]_vars

\* The weight the specification gives a category
CategoryWeight(f) ==
  CASE f \in {"phone_numbers", "emails"} -> 20
    [] f = "vehicle_plates" -> 30
    [] OTHER -> 15

RECURSIVE WeightSum(_)
WeightSum(S) ==
  IF S = {} THEN 0
  ELSE LET f == CHOOSE x \in S : TRUE IN CategoryWeight(f) + WeightSum(S \ {f})

NonEmptyCategories(sd) == { f \in ConfidenceFields : GetList(sd, f) # <<>> }

\* C12: the score is the sum of the weights of the categories whose list is
\* not empty, an integer of 0..100, and filling one empty category raises
\* it by the weight of that category.
C12_ConfidenceIsWeightSum ==
  (app.op = "_calculate_confidence" /\ app.ret # None) =>
    /\ app.ret[1] = WeightSum(NonEmptyCategories(app.arg))
    /\ app.ret[1] \in 0..100
    /\ \A f \in ConfidenceFields \ NonEmptyCategories(app.arg) :
         CalculateConfidence(Put(app.arg, f, <<"v">>))
           = app.ret[1] + CategoryWeight(f)

\* Plates alone score 30, beside empty and missing categories
C12_Witness ==
  /\ app.op = "_calculate_confidence" /\ app.ret = Some(30)
  /\ NonEmptyCategories(app.arg) = {"vehicle_plates"}
  /\ "emails" \in DOMAIN app.arg
  /\ "amounts" \notin DOMAIN app.arg

\* ----------------------------------------------------------------------
\* The merge loop of process_invoice_extraction (lines 320-326) on its own
MergeKeys == {"customer_name", "vehicle_plates"}

\* Values either side may hold for a key: strings, lists with and without
\* repeated entries, None
MergeValues ==
  { Str(<<>>), Str(<<"A">>), Str(<<"b">>), NoneVal, ListVal(<<>>),
    ListVal(<< Str(<<"A">>) >>),
    ListVal(<< Str(<<"b">>), Str(<<"A">>), Str(<<"b">>) >>) }

MergeMaps == UNION { [S -> MergeValues] : S \in SUBSET MergeKeys }

InitMerge ==
  /\ store_patterns = {} /\ store_templates = {}
  /\ patterns = NewExtractor.patterns
  /\ service_templates = NewExtractor.service_templates
  /\ patterns_loaded = NewExtractor.loaded
  /\ store_reads = NewExtractor.reads
  /\ load_failed = FALSE
  /\ last = NoCall
  /\ scan = NoScan
  /\ db = NoDb
  /\ workers = [w \in WorkerIds |-> NoWorker]
  /\ calls = [c \in CallIds |-> NoPieCall]
  /\ \E inv \in MergeMaps, ds \in MergeMaps :
       app = [op |-> "merge", arg |-> [invoice_fields |-> inv, doc_struct |-> ds],
              ret |-> None]

ApplyMerge ==
  /\ app.op = "merge" /\ app.ret = None
  /\ app' = [app EXCEPT !.ret =
               Some(MergeStructured(app.arg.invoice_fields, app.arg.doc_struct))]
  /\ UNCHANGED << instance_vars, scan, task_vars, calls >>

NextMerge == ApplyMerge

SpecMerge == InitMerge /\ [][NextMerge]_vars

\* r holds every entry of xs once, in the order of first occurrence in xs
IsFirstOccurrences(r, xs) ==
  /\ { r[i] : i \in 1..Len(r) } = { xs[i] : i \in 1..Len(xs) }
  /\ \A i, j \in 1..Len(r) : i < j => r[i] # r[j]
  /\ \A i, j \in 1..Len(r) :
       i < j => \E n \in 1..Len(xs) :
                  xs[n] = r[i] /\ \A q \in 1..n : xs[q] # r[j]

\* C13: in the merge a key with a non-empty rule-driven value keeps it (a
\* scalar is never replaced); a key absent or falsy in the rule-driven map
\* takes the collaborator's non-empty value; of the other keys, one that is
\* a list on both sides becomes rule-driven entries then collaborator
\* entries, first occurrences only; every other key is as in the
\* rule-driven map.
C13_MergePrefersRuleDriven ==
  (app.op = "merge" /\ app.ret # None) =>
    LET inv == app.arg.invoice_fields
        ds == app.arg.doc_struct
        merged == app.ret[1]
    IN \A k \in MergeKeys :
         LET has == k \in DOMAIN inv /\ ~IsEmptyValue(inv[k])
             offered == k \in DOMAIN ds /\ ~IsEmptyValue(ds[k])
             lists == /\ k \in DOMAIN inv /\ k \in DOMAIN ds
                      /\ inv[k].t = "list" /\ ds[k].t = "list"
         IN CASE ~has /\ offered -> k \in DOMAIN merged /\ merged[k] = ds[k]
              [] lists /\ ~(~has /\ offered) ->
                   /\ k \in DOMAIN merged /\ merged[k].t = "list"
                   /\ IsFirstOccurrences(merged[k].items, inv[k].items \o ds[k].items)
              [] OTHER ->
                   /\ k \in DOMAIN merged <=> k \in DOMAIN inv
                   /\ k \in DOMAIN inv => merged[k] = inv[k]

\* Lists with common entries on both sides were joined, and a string of the
\* rule-driven map was kept against the collaborator's
C13_Witness ==
  /\ app.op = "merge" /\ app.ret # None
  /\ DOMAIN app.arg.invoice_fields = MergeKeys
  /\ DOMAIN app.arg.doc_struct = MergeKeys
  /\ app.arg.invoice_fields["vehicle_plates"] = ListVal(<< Str(<<"A">>) >>)
  /\ app.arg.doc_struct["vehicle_plates"]
       = ListVal(<< Str(<<"b">>), Str(<<"A">>), Str(<<"b">>) >>)
  /\ app.ret[1]["vehicle_plates"] = ListVal(<< Str(<<"A">>), Str(<<"b">>) >>)
  /\ app.arg.invoice_fields["customer_name"] = Str(<<"A">>)
  /\ app.arg.doc_struct["customer_name"] = Str(<<"b">>)
  /\ app.ret[1]["customer_name"] = Str(<<"A">>)

\* ---- C14
EnrichmentKeys ==
  {"code_no", "reference", "plate_number", "vat_amount", "net_value", "gross_value"}

MergeCompleted == scan.op = "process_invoice_extraction" /\ scan.out.merged

\* C14: a value one of the six enrichment keys holds after the merge is the
\* value the returned map holds for it
C14_EnrichmentOnlyIfMissing ==
  MergeCompleted =>
    \A k \in EnrichmentKeys \cap DOMAIN scan.out.after_merge :
      k \in DOMAIN scan.out.ret /\ scan.out.ret[k] = scan.out.after_merge[k]
\* ---- C15
\* The sources of a plate, in the order of the claim: what extract_all
\* returned, the token after FOR in the returned reference, the first of
\* the collaborator's vehicle_plates; None where the source has nothing
\* (an empty string is nothing)
RulePlate ==
  IF ~Falsy(scan.out.invoice_fields, "plate_number")
  THEN Some(scan.out.invoice_fields["plate_number"]) ELSE None

ReferencePlate ==
  IF "reference" \in DOMAIN scan.out.ret /\ scan.out.ret["reference"].t = "str"
     /\ ForCapture(scan.out.ret["reference"].s) # None
     /\ Strip(ForCapture(scan.out.ret["reference"].s)[1]) # <<>>
  THEN Some(Str(Strip(ForCapture(scan.out.ret["reference"].s)[1])))
  ELSE None

CollaboratorPlate ==
  LET doc_struct == DocStructOf(scan.in.collab) IN
    IF "vehicle_plates" \in DOMAIN doc_struct
       /\ doc_struct["vehicle_plates"].t = "list"
       /\ doc_struct["vehicle_plates"].items # <<>>
    THEN Some(doc_struct["vehicle_plates"].items[1]) ELSE None

ReturnedPlate ==
  IF "plate_number" \in DOMAIN scan.out.ret
  THEN Some(scan.out.ret["plate_number"]) ELSE None

\* C15: the returned plate_number is the plate of the first source that has
\* one, and the key is absent when none has
C15_PlatePrecedence ==
  MergeCompleted =>
    ReturnedPlate =
      ( IF RulePlate # None THEN RulePlate
        ELSE IF ReferencePlate # None THEN ReferencePlate
        ELSE CollaboratorPlate )
\* ======================================================================
\* Background extraction (async_extraction.py) and the upload_document
\* action (views_start_order.py): specification SpecTasks
\* ======================================================================
\* Document 1 was created with the default status and some file
InitTasks ==
  /\ store_patterns = {} /\ store_templates = {}
  /\ patterns = NewExtractor.patterns
  /\ service_templates = NewExtractor.service_templates
  /\ patterns_loaded = NewExtractor.loaded
  /\ store_reads = NewExtractor.reads
  /\ load_failed = FALSE
  /\ last = NoCall
  /\ scan = NoScan
  /\ app = NoApp
  /\ \E in \in TaskFiles :
       db = [NoDb EXCEPT !.docs[1] = DocRow(TRUE, "pending", in)]
  /\ workers = [w \in WorkerIds |-> NoWorker]
  /\ calls = [c \in CallIds |-> NoPieCall]

\* doc_scan.save(): every field of the instance is written to the row
Save(row, inst) ==
  [row EXCEPT !.extraction_status = inst.extraction_status,
              !.extraction_error = inst.extraction_error]

\* doc_scan.save(update_fields=['extraction_status'])
SaveStatus(row, inst) ==
  [row EXCEPT !.extraction_status = inst.extraction_status]

\* _set_extraction_progress (lines 292-308)
SetExtractionProgress(id, status, progress) ==
  [db EXCEPT !.progress[id] = Some(<< status, progress >>)]

\* The thread w at another position
Goto(w, pc) == [workers[w] EXCEPT !.pc = pc]

\* A call to the database or the cache may raise while the run has raised
\* fewer than MaxFaults times
CanRaise(w) == workers[w].faults < MaxFaults

\* The thread w in the handler that catches the exception msg
Raise(w, msg, handler) ==
  [workers[w] EXCEPT !.pc = handler, !.e = Some(msg), !.faults = @ + 1]

\* start_extraction_task (lines 15-27): a thread is started for an id
StartExtractionTask(w) ==
  /\ workers[w].pc = "idle"
  /\ \E id \in DocIds : workers' = [workers EXCEPT ![w] = [Goto(w, "get") EXCEPT !.id = id]]
  /\ UNCHANGED << instance_vars, scan, app, calls, db >>

\* line 39: DocumentScan.objects.get(id=document_scan_id)
GetDocScan(w) ==
  /\ workers[w].pc = "get"
  /\ \/ /\ db.docs[workers[w].id].present
        /\ workers' = [workers EXCEPT ![w] =
             [Goto(w, "save_processing") EXCEPT
                !.doc_scan = Instance(db.docs[workers[w].id])]]
     \/ /\ ~db.docs[workers[w].id].present
        /\ workers' = [workers EXCEPT ![w] = Goto(w, "not_found")]
     \/ /\ CanRaise(w)
        /\ workers' = [workers EXCEPT ![w] = Raise(w, DbErrorMsg, "outer_except")]
  /\ UNCHANGED << instance_vars, scan, app, calls, db >>

\* lines 170-172: except DocumentScan.DoesNotExist
NotFound(w) ==
  /\ workers[w].pc = "not_found"
  /\ \/ db' = SetExtractionProgress(workers[w].id, "failed", 0)
     \/ CanRaise(w) /\ UNCHANGED db
  /\ workers' = [workers EXCEPT ![w] = Goto(w, "done")]
  /\ UNCHANGED << instance_vars, scan, app, calls >>

\* lines 42-43: the status 'processing' is assigned and saved
SaveProcessing(w) ==
  /\ workers[w].pc = "save_processing"
  /\ LET inst == [workers[w].doc_scan EXCEPT !.extraction_status = "processing"] IN
       \/ /\ db' = [db EXCEPT !.docs[workers[w].id] = SaveStatus(@, inst)]
          /\ workers' = [workers EXCEPT ![w] =
               [Goto(w, "progress_10") EXCEPT !.doc_scan = inst,
                                              !.saved_processing = TRUE]]
       \/ /\ CanRaise(w)
          /\ workers' = [workers EXCEPT ![w] =
               [Raise(w, DbErrorMsg, "outer_except") EXCEPT !.doc_scan = inst]]
          /\ UNCHANGED db
  /\ UNCHANGED << instance_vars, scan, app, calls >>

\* A call of _set_extraction_progress at position pc of thread w
Progress(w, pc, status, progress, next, handler) ==
  /\ workers[w].pc = pc
  /\ \/ /\ db' = SetExtractionProgress(workers[w].id, status, progress)
        /\ workers' = [workers EXCEPT ![w] = Goto(w, next)]
     \/ /\ CanRaise(w)
        /\ workers' = [workers EXCEPT ![w] = Raise(w, CacheErrorMsg, handler)]
        /\ UNCHANGED db
  /\ UNCHANGED << instance_vars, scan, app, calls >>

\* line 46
Progress10(w) == Progress(w, "progress_10", "processing", 10, "extract", "outer_except")

\* lines 50-52: process_invoice_extraction and the test for 'error'
Extract(w) ==
  /\ workers[w].pc = "extract"
  /\ LET data == ExtractedData(db.docs[workers[w].id].file) IN
       workers' = [workers EXCEPT ![w] =
         [Goto(w, IF data.error = None THEN "progress_50" ELSE "save_failed")
            EXCEPT !.data = data]]
  /\ UNCHANGED << instance_vars, scan, app, calls, db >>

\* line 53
Progress50(w) == Progress(w, "progress_50", "processing", 50, "create", "inner_except")

\* lines 69-87: DocumentExtraction.objects.create
CreateExtraction(w) ==
  /\ workers[w].pc = "create"
  /\ \/ /\ db' = [db EXCEPT !.docs[workers[w].id].extractions = @ + 1]
        /\ workers' = [workers EXCEPT ![w] =
             [Goto(w, "items") EXCEPT !.created = @ + 1]]
     \/ /\ CanRaise(w)
        /\ workers' = [workers EXCEPT ![w] = Raise(w, DbErrorMsg, "inner_except")]
        /\ UNCHANGED db
  /\ UNCHANGED << instance_vars, scan, app, calls >>

\* lines 89-130: the items are created one by one; an exception in the
\* block is logged and ends it
PersistItems(w) ==
  /\ workers[w].pc = "items"
  /\ \E k \in 0..workers[w].data.items :
       /\ db' = [SetExtractionProgress(workers[w].id, "processing", 70) EXCEPT
                   !.docs[workers[w].id].items = @ + k]
       /\ workers' = [workers EXCEPT ![w] =
            [Goto(w, "progress_90") EXCEPT !.created_items = @ + k]]
  /\ UNCHANGED << instance_vars, scan, app, calls >>

\* line 132
Progress90(w) ==
  Progress(w, "progress_90", "processing", 90, "save_completed", "inner_except")

\* lines 134-137: the status 'completed' is assigned and the instance saved
SaveCompleted(w) ==
  /\ workers[w].pc = "save_completed"
  /\ LET inst == [workers[w].doc_scan EXCEPT !.extraction_status = "completed"] IN
       \/ /\ db' = [db EXCEPT !.docs[workers[w].id] = Save(@, inst)]
          /\ workers' = [workers EXCEPT ![w] =
               [Goto(w, "auto_apply") EXCEPT !.doc_scan = inst]]
       \/ /\ CanRaise(w)
          /\ workers' = [workers EXCEPT ![w] =
               [Raise(w, DbErrorMsg, "inner_except") EXCEPT !.doc_scan = inst]]
          /\ UNCHANGED db
  /\ UNCHANGED << instance_vars, scan, app, calls >>

\* lines 139-155: the matches and the auto-apply run in a try block of
\* their own and touch no DocumentScan
AutoApply(w) ==
  /\ workers[w].pc = "auto_apply"
  /\ workers' = [workers EXCEPT ![w] = Goto(w, "progress_100")]
  /\ UNCHANGED << instance_vars, scan, app, calls, db >>

\* line 157
Progress100(w) == Progress(w, "progress_100", "completed", 100, "done", "inner_except")

\* A caller that stores a message of its own
StoredErrorGeneric(data) == Some(ExtractionFailedMsg)

\* The error string the callers store (line 160; views_start_order.py 373)
StoredError(data) == data.error

\* lines 158-161: the branch of a map with 'error'
SaveFailed(w) ==
  /\ workers[w].pc = "save_failed"
  /\ LET inst == [extraction_status |-> "failed",
                  extraction_error |-> StoredError(workers[w].data)] IN
       \/ /\ db' = [db EXCEPT !.docs[workers[w].id] = Save(@, inst)]
          /\ workers' = [workers EXCEPT ![w] =
               [Goto(w, "progress_failed") EXCEPT !.doc_scan = inst]]
       \/ /\ CanRaise(w)
          /\ workers' = [workers EXCEPT ![w] =
               [Raise(w, DbErrorMsg, "inner_except") EXCEPT !.doc_scan = inst]]
          /\ UNCHANGED db
  /\ UNCHANGED << instance_vars, scan, app, calls >>

\* line 162
ProgressFailed(w) == Progress(w, "progress_failed", "failed", 0, "done", "inner_except")

\* lines 163-167: except Exception as e around the extraction
HandleExtractionError(w) ==
  /\ workers[w].pc = "inner_except"
  /\ LET inst == [extraction_status |-> "failed", extraction_error |-> workers[w].e] IN
       \/ /\ db' = [db EXCEPT !.docs[workers[w].id] = Save(@, inst)]
          /\ workers' = [workers EXCEPT ![w] =
               [Goto(w, "progress_inner") EXCEPT !.doc_scan = inst]]
       \/ /\ CanRaise(w)
          /\ workers' = [workers EXCEPT ![w] =
               [Raise(w, DbErrorMsg, "outer_except") EXCEPT !.doc_scan = inst]]
          /\ UNCHANGED db
  /\ UNCHANGED << instance_vars, scan, app, calls >>

\* line 168
ProgressInner(w) == Progress(w, "progress_inner", "failed", 0, "done", "outer_except")

\* lines 173-175: except Exception as e around the whole run; an exception
\* of its own ends the thread
HandleWorkerError(w) ==
  /\ workers[w].pc = "outer_except"
  /\ \/ db' = SetExtractionProgress(workers[w].id, "failed", 0)
     \/ CanRaise(w) /\ UNCHANGED db
  /\ workers' = [workers EXCEPT ![w] = Goto(w, "done")]
  /\ UNCHANGED << instance_vars, scan, app, calls >>

\* The upload_document action (views_start_order.py lines 276-380).  It runs
\* in transaction.atomic(): an error of the database in the block makes the
\* save of the handler (line 379) raise too, and the block is rolled back
\* with the document it created
UploadDocument ==
  /\ ~db.upload.done
  /\ \E in \in TaskFiles :
       LET data == ExtractedData(in) IN
         \/ db' = [db EXCEPT !.upload = [done |-> TRUE, data |-> data,
                                         rolled_back |-> TRUE]]
         \/ db' = [db EXCEPT
              !.upload = [done |-> TRUE, data |-> data, rolled_back |-> FALSE],
              !.docs[2] =
                IF data.error = None
                THEN [DocRow(TRUE, "completed", in) EXCEPT
                        !.extractions = 1, !.items = data.items]
                ELSE [DocRow(TRUE, "failed", in) EXCEPT
                        !.extraction_error = StoredError(data)]]
  /\ UNCHANGED << instance_vars, scan, app, calls, workers >>

NextTasks ==
  \/ \E w \in WorkerIds : StartExtractionTask(w)
  \/ \E w \in WorkerIds : GetDocScan(w)
  \/ \E w \in WorkerIds : NotFound(w)
  \/ \E w \in WorkerIds : SaveProcessing(w)
  \/ \E w \in WorkerIds : Progress10(w)
  \/ \E w \in WorkerIds : Extract(w)
  \/ \E w \in WorkerIds : Progress50(w)
  \/ \E w \in WorkerIds : CreateExtraction(w)
  \/ \E w \in WorkerIds : PersistItems(w)
  \/ \E w \in WorkerIds : Progress90(w)
  \/ \E w \in WorkerIds : SaveCompleted(w)
  \/ \E w \in WorkerIds : AutoApply(w)
  \/ \E w \in WorkerIds : Progress100(w)
  \/ \E w \in WorkerIds : SaveFailed(w)
  \/ \E w \in WorkerIds : ProgressFailed(w)
  \/ \E w \in WorkerIds : HandleExtractionError(w)
  \/ \E w \in WorkerIds : ProgressInner(w)
  \/ \E w \in WorkerIds : HandleWorkerError(w)
  \/ UploadDocument

SpecTasks == InitTasks /\ [][NextTasks]_vars
\* ---- C16
\* The moves of extraction_status the state machine names
StatusMoves ==
  { << "pending", "processing" >>, << "processing", "completed" >>,
    << "processing", "failed" >> }

TerminalStatuses == {"completed", "failed"}

\* C16: the status of a document moves only pending -> processing ->
\* completed or failed, and a completed or failed status never changes
C16_StatusOnlyAdvances ==
  [][\A d \in DocIds :
       ( db.docs[d].present
         /\ db'.docs[d].extraction_status # db.docs[d].extraction_status )
       => /\ db.docs[d].extraction_status \notin TerminalStatuses
          /\ << db.docs[d].extraction_status, db'.docs[d].extraction_status >>
               \in StatusMoves]_vars

\* ---- C17
\* The runs for document d, and whether all of them have ended
RunsOf(d) == { w \in WorkerIds : workers[w].id = d }

RunsEnded(d) == \A w \in RunsOf(d) : workers[w].pc = "done"

\* C17: when the runs for a document have ended and one of them saved the
\* status 'processing', the persisted status is 'completed' or 'failed'
C17_NoRunEndsInProcessing ==
  \A d \in DocIds :
    ( RunsEnded(d) /\ \E w \in RunsOf(d) : workers[w].saved_processing )
    => db.docs[d].extraction_status \in TerminalStatuses

C19_NoRecordWithError ==
  \A d \in DocIds :
    ( /\ db.docs[d].present /\ RunsEnded(d)
      /\ db.docs[d].extraction_status = "failed"
      /\ db.docs[d].extraction_error # None )
    => db.docs[d].extractions = 0
\* ======================================================================
\* Calls of process_invoice_extraction that run at the same time, beside
\* calls on the module-level extractor: specification SpecConcurrent
\* ======================================================================
\* Stores with the rows that change what the calls below return
ConcurrentStores ==
  { st \in Stores :
      /\ \A r \in st[1] : r.name \in {"ref10", "p10"}
      /\ \A t \in st[2] : t.name = "Oil Change" }

InitConcurrent ==
  /\ \E st \in ConcurrentStores : store_patterns = st[1] /\ store_templates = st[2]
  /\ patterns = NewExtractor.patterns
  /\ service_templates = NewExtractor.service_templates
  /\ patterns_loaded = NewExtractor.loaded
  /\ store_reads = NewExtractor.reads
  /\ load_failed = FALSE
  /\ last = NoCall
  /\ scan = NoScan
  /\ app = NoApp
  /\ db = NoDb
  /\ workers = [w \in WorkerIds |-> NoWorker]
  /\ calls = [c \in CallIds |-> NoPieCall]

\* Texts of the documents: values everywhere with line items; a reference
\* whose text after FOR is blank
ConcurrentTexts ==
  { MkText(TextLen, <<>>, <<>>, <<"value", "value">>, "values", SampleItems),
    MkText(TextLen, <<>>, <<>>, <<"none", "value">>, "for_blank", <<>>) }

\* The documents: an image, and PDFs the collaborator reads
ConcurrentInputs(answers) ==
  { PieInput(Some(".png"), "ok", CollabFailure(None), None, NoAnswer, "none", FALSE) }
  \cup { PieInput(Some(".pdf"), "ok", CollabSuccess(text, DocStruct("full", text)),
                  None, ans, "none", FALSE) :
           text \in ConcurrentTexts, ans \in answers }

\* The module-level instance of get_extractor (lines 449-456)
ModuleExtractor == "module"

\* The extractor a call of process_invoice_extraction works with: its own
\* (line 270)
CallExtractor == "own"

\* A caller of get_extractor() uses the module-level instance, which loads
\* the configuration on first use (line 155, 178 or 227)
UseModuleExtractor ==
  /\ ~patterns_loaded
  /\ \E ans \in StoreAnswers(store_patterns, store_templates) :
       LET self == LoadPatternsFromDb(Self, ans) IN
         /\ patterns' = self.patterns
         /\ service_templates' = self.service_templates
         /\ patterns_loaded' = self.loaded
         /\ store_reads' = self.reads
         /\ load_failed' = (ans.fault.phase # "none")
  /\ UNCHANGED << store_patterns, store_templates, last, other_vars >>

\* lines 270-278: a call starts on a document, builds its extractor, and
\* returns at once for a file without name or an image
BeginCall(c) ==
  /\ calls[c].pc = "idle"
  /\ \E in \in ConcurrentInputs(StoreAnswers(store_patterns, store_templates)) :
       calls' = [calls EXCEPT ![c] =
         IF in.name = None
         THEN [NoPieCall EXCEPT !.pc = "done", !.in = in,
                                !.out = OuterExcept(NoNameMsg, 0)]
         ELSE IF in.name[1] \in OrchestratorImageExts
         THEN [NoPieCall EXCEPT !.pc = "done", !.in = in,
                                !.out = Outcome(ErrorMap(ImageDisabledMsg), 0, FALSE)]
         ELSE [NoPieCall EXCEPT !.pc = "acquire", !.in = in]]
  /\ UNCHANGED << instance_vars, scan, app, task_vars >>

\* lines 280-309: the text is acquired
AcquireStep(c) ==
  /\ calls[c].pc = "acquire"
  /\ \E acq \in {AcquireText(calls[c].in)} :
       calls' = [calls EXCEPT ![c] =
         IF acq.k = "return"
         THEN [@ EXCEPT !.pc = "done", !.out = Outcome(ErrorMap(acq.msg), 0, FALSE)]
         ELSE [@ EXCEPT !.pc = "extract", !.acq = acq]]
  /\ UNCHANGED << instance_vars, scan, app, task_vars >>

\* line 317: extract_all on the extractor of the call, which loads the
\* configuration
ExtractStep(c) ==
  /\ calls[c].pc = "extract"
  /\ \E self \in {IF CallExtractor = "own" THEN calls[c].extractor ELSE Self},
        ans \in {calls[c].in.ans}, text \in {calls[c].acq.text} :
     \E ea \in {ExtractAll(self, ans, text)} :
        /\ calls' = [calls EXCEPT ![c] =
              [@ EXCEPT !.pc = "merge", !.invoice_fields = ea.ret,
                        !.extractor = IF CallExtractor = "own" THEN ea.self ELSE @]]
        /\ IF CallExtractor = "own"
           THEN UNCHANGED << patterns, service_templates, patterns_loaded, store_reads >>
           ELSE /\ patterns' = ea.self.patterns
                /\ service_templates' = ea.self.service_templates
                /\ patterns_loaded' = ea.self.loaded
                /\ store_reads' = ea.self.reads
  /\ UNCHANGED << store_patterns, store_templates, load_failed, last, scan, app,
                  task_vars >>

\* lines 318-441: the merge block and the return
MergeStep(c) ==
  /\ calls[c].pc = "merge"
  /\ \E in \in {calls[c].in}, acq \in {calls[c].acq},
        ea \in {[self |-> IF CallExtractor = "own" THEN calls[c].extractor ELSE Self,
                 ret |-> calls[c].invoice_fields]} :
       calls' = [calls EXCEPT ![c] =
         [@ EXCEPT !.pc = "done", !.out = MergeOutcome(in, acq, ea)]]
  /\ UNCHANGED << instance_vars, scan, app, task_vars >>

NextConcurrent ==
  \/ UseModuleExtractor
  \/ \E c \in CallIds : BeginCall(c)
  \/ \E c \in CallIds : AcquireStep(c)
  \/ \E c \in CallIds : ExtractStep(c)
  \/ \E c \in CallIds : MergeStep(c)

SpecConcurrent == InitConcurrent /\ [][NextConcurrent]_vars

\* ---- C20
\* C20: a call that has returned returned what process_invoice_extraction
\* returns for its document alone, whatever ran beside it, and no step of a
\* call changes the module-level extractor
C20_CallsAreIndependent ==
  /\ [](\A c \in CallIds :
          calls[c].pc = "done"
          => calls[c].out = ProcessInvoiceExtraction(calls[c].in))
  /\ [][calls' # calls => UNCHANGED instance_vars]_vars

\* Two calls on different documents have returned fields while the other
\* ran, beside a load of the module-level extractor
C20_Witness ==
  /\ calls[1].pc = "done" /\ calls[2].pc = "done"
  /\ calls[1].in # calls[2].in
  /\ calls[1].out.merged /\ calls[2].out.merged
  /\ calls[1].out.ret # calls[2].out.ret
  /\ patterns_loaded

\* ------------------------------------------------ the structured parser
\* document_extraction.py: DocumentExtractor._parse_text and its helpers

UpperAlphabet ==
  << "A", "B", "C", "D", "E", "F", "G", "H", "I", "J", "K", "L", "M",
     "N", "O", "P", "Q", "R", "S", "T", "U", "V", "W", "X", "Y", "Z" >>

LowerAlphabet ==
  << "a", "b", "c", "d", "e", "f", "g", "h", "i", "j", "k", "l", "m",
     "n", "o", "p", "q", "r", "s", "t", "u", "v", "w", "x", "y", "z" >>

UpperLetters == { UpperAlphabet[i] : i \in 1..26 }

LowerLetters == { LowerAlphabet[i] : i \in 1..26 }

AsciiLetters == UpperLetters \cup LowerLetters

\* \w of the regular expressions
WordChars == AsciiLetters \cup Digits \cup {"_"}

\* str.upper() and str.lower(), character by character
UpperOf(c) ==
  IF c \in LowerLetters
  THEN UpperAlphabet[CHOOSE i \in 1..26 : LowerAlphabet[i] = c] ELSE c

LowerOf(c) ==
  IF c \in UpperLetters
  THEN LowerAlphabet[CHOOSE i \in 1..26 : UpperAlphabet[i] = c] ELSE c

ToUpper(s) == [i \in 1..Len(s) |-> UpperOf(s[i])]

ToLower(s) == [i \in 1..Len(s) |-> LowerOf(s[i])]

\* ' '.join(parts)
RECURSIVE JoinBlank(_)
JoinBlank(parts) ==
  IF parts = <<>> THEN <<>>
  ELSE IF Len(parts) = 1 THEN parts[1]
  ELSE parts[1] \o <<" ">> \o JoinBlank(Tail(parts))

\* _clean_phone (line 415-417): every character but digits and + is dropped
CleanPhone(phone) == FilterSeq(phone, Digits \cup {"+"})

\* The letters-digits-letters split of ^([A-Z]+)(\d+)([A-Z]*)$, or None
PlateParts(cleaned) ==
  LET a == RunLen(cleaned, 1, UpperLetters)
      d == RunLen(cleaned, a + 1, Digits)
      z == RunLen(cleaned, a + d + 1, UpperLetters)
  IN IF a >= 1 /\ d >= 1 /\ a + d + z = Len(cleaned)
     THEN Some(<< SubSeq(cleaned, 1, a), SubSeq(cleaned, a + 1, a + d),
                  SubSeq(cleaned, a + d + 1, a + d + z) >>)
     ELSE None

\* A _clean_plate that writes the digits before the letters
CleanPlateDigitsFirst(plate) ==
  LET cleaned == FilterSeq(ToUpper(plate), UpperLetters \cup Digits)
      m == PlateParts(cleaned)
  IN IF m # None
     THEN JoinBlank(SelectSeq(<< m[1][2], m[1][1], m[1][3] >>,
                              LAMBDA p : p # <<>>))
     ELSE cleaned

\* _clean_plate (lines 419-430): upper case, letters and digits only, and
\* a blank between the parts of a letters-digits-letters plate
CleanPlate(plate) ==
  LET cleaned == FilterSeq(ToUpper(plate), UpperLetters \cup Digits)
      m == PlateParts(cleaned)
  IN IF m # None
     THEN JoinBlank(SelectSeq(m[1], LAMBDA p : p # <<>>))
     ELSE cleaned

\* ---- _extract_items (lines 354-413)
HeaderWords ==
  { <<"p", "r", "o", "f", "o", "r", "m", "a">>,
    <<"i", "n", "v", "o", "i", "c", "e">>,
    <<"c", "u", "s", "t", "o", "m", "e", "r">>,
    <<"a", "d", "d", "r", "e", "s", "s">>, <<"t", "e", "l">>,
    <<"f", "a", "x">>, <<"e", "m", "a", "i", "l">>, <<"t", "a", "x">>,
    <<"v", "a", "t">>, <<"p", "a", "g", "e">> }

\* re.search(r'^(proforma|...|page)\b', line, re.I)
StartsWithHeaderWord(line) ==
  \E w \in HeaderWords :
    /\ Len(line) >= Len(w)
    /\ ToLower(SubSeq(line, 1, Len(w))) = w
    /\ (Len(line) = Len(w) \/ line[Len(w) + 1] \notin WordChars)

\* amount_re.findall(s) for r'([\d,]+\.?\d{0,2})', from index i on
RECURSIVE AmountTokens(_, _)
AmountTokens(s, i) ==
  IF i > Len(s) THEN <<>>
  ELSE IF s[i] \in Digits \cup {","}
  THEN LET n == RunLen(s, i, Digits \cup {","})
           dot == IF i + n <= Len(s) /\ s[i + n] = "." THEN 1 ELSE 0
           f == Min(2, RunLen(s, i + n + dot, Digits))
       IN << SubSeq(s, i, i + n + dot + f - 1) >>
            \o AmountTokens(s, i + n + dot + f)
  ELSE AmountTokens(s, i + 1)

\* The element of a set of one
Only(S) == CHOOSE x \in S : TRUE

\* [self._parse_amount_str(a) for a in amounts if ... is not None]
ParsedNums(tokens) ==
  Only({ [i \in 1..Len(kept) |-> kept[i][1]] :
           kept \in { SelectSeq([i \in 1..Len(tokens) |-> ParseAmountStr(tokens[i])],
                                LAMBDA p : p # None) } })

CodeClass == UpperLetters \cup Digits

\* r'\b([A-Z0-9]{3,}[\/-]?[A-Z0-9]*)\b' tried at index i: a run of three
\* or more, a separator and a second run if a word boundary follows them
CodeMatchAt(line, i) ==
  LET n == RunLen(line, i, CodeClass)
      m2 == RunLen(line, i + n + 1, CodeClass)
      after == i + n + 1 + m2
  IN IF (i > 1 /\ line[i - 1] \in WordChars) \/ n < 3 THEN None
     ELSE IF i + n <= Len(line) /\ line[i + n] \in {"/", "-"}
     THEN IF m2 > 0 /\ (after > Len(line) \/ line[after] \notin WordChars)
          THEN Some(SubSeq(line, i, after - 1))
          ELSE IF i + n + 1 <= Len(line) /\ line[i + n + 1] \in WordChars
          THEN Some(SubSeq(line, i, i + n))
          ELSE Some(SubSeq(line, i, i + n - 1))
     ELSE IF i + n > Len(line) \/ line[i + n] \notin WordChars
     THEN Some(SubSeq(line, i, i + n - 1))
     ELSE None

\* group(1) of the leftmost match, or None
CodeMatch(line) ==
  LET hits == { i \in 1..Len(line) : CodeMatchAt(line, i) # None } IN
    IF hits = {} THEN None
    ELSE CodeMatchAt(line, CHOOSE i \in hits : \A j \in hits : i <= j)

\* lines 366: the line holds a letter and a digit
HasLetterAndDigit(line) ==
  /\ \E i \in 1..Len(line) : line[i] \in AsciiLetters
  /\ \E i \in 1..Len(line) : line[i] \in Digits

\* lines 360-366: header lines are skipped, the rest needs a letter and a
\* digit
IsCandidate(line) == ~StartsWithHeaderWord(line) /\ HasLetterAndDigit(line)

\* A variant that reads qty, rate and value from the first three numbers
FirstThree(nums) ==
  [value |-> IF Len(nums) >= 3 THEN Some(nums[3]) ELSE None,
   rate |-> IF Len(nums) >= 2 THEN Some(nums[2]) ELSE None,
   qty |-> IF Len(nums) >= 1 THEN Some(nums[1]) ELSE None]

\* value, rate and qty of a list of numbers: the last three, from the end
LastThree(nums) ==
  [value |-> IF Len(nums) >= 1 THEN Some(nums[Len(nums)]) ELSE None,
   rate |-> IF Len(nums) >= 2 THEN Some(nums[Len(nums) - 1]) ELSE None,
   qty |-> IF Len(nums) >= 3 THEN Some(nums[Len(nums) - 2]) ELSE None]

\* lines 368-402: the item of the candidate line lines[idx]
ItemOfLine(lines, idx) ==
  LET look_ahead == JoinBlank(SubSeq(lines, idx, Min(Len(lines), idx + 2)))
      NumsOf(s) ==
        Only({ LastThree(nums) :
                 nums \in { ParsedNums(tokens) :
                              tokens \in { AmountTokens(RemoveCommas(s), 1) } } })
  IN Only({ [description |-> lines[idx], code |-> CodeMatch(lines[idx]),
             qty |-> nums.qty, rate |-> nums.rate, value |-> nums.value] :
              nums \in { IF own.value = None \/ own.value = Some(<<>>)
                         THEN NumsOf(look_ahead) ELSE own :
                           own \in { NumsOf(lines[idx]) } } })

\* l.strip() for l in text.splitlines() if l.strip()
StrippedLines(raw_lines) ==
  SelectSeq([i \in 1..Len(raw_lines) |-> Strip(raw_lines[i])],
            LAMBDA l : l # <<>>)

\* _extract_items on the lines of a text
ExtractItems(raw_lines) ==
  LET Items(lines) ==
        Only({ [k \in 1..Len(cands) |-> ItemOfLine(lines, cands[k])] :
                 cands \in { SelectSeq([i \in 1..Len(lines) |-> i],
                                       LAMBDA i : IsCandidate(lines[i])) } })
  IN Only({ SelectSeq(items, LAMBDA it : it.value # None \/ it.qty # None) :
              items \in { Items(lines) : lines \in { StrippedLines(raw_lines) } } })

\* _extract_keywords (lines 460-476)
ServiceKeywords ==
  << <<"s", "e", "r", "v", "i", "c", "e">>,
     <<"m", "a", "i", "n", "t", "e", "n", "a", "n", "c", "e">>,
     <<"r", "e", "p", "a", "i", "r">>, <<"t", "i", "r", "e">>,
     <<"t", "y", "r", "e">>, <<"o", "i", "l">>,
     <<"b", "r", "a", "k", "e">>, <<"b", "a", "t", "t", "e", "r", "y">>,
     <<"a", "l", "i", "g", "n", "m", "e", "n", "t">>,
     <<"i", "n", "s", "p", "e", "c", "t", "i", "o", "n">>,
     <<"d", "i", "a", "g", "n", "o", "s", "t", "i", "c">>,
     <<"i", "n", "s", "t", "a", "l", "l", "a", "t", "i", "o", "n">>,
     <<"r", "e", "p", "l", "a", "c", "e", "m", "e", "n", "t">>,
     <<"c", "h", "a", "n", "g", "e">>, <<"w", "a", "s", "h">>,
     <<"c", "l", "e", "a", "n">>, <<"b", "a", "l", "a", "n", "c", "e">>,
     <<"r", "o", "t", "a", "t", "i", "o", "n">>,
     <<"c", "h", "e", "c", "k">>, <<"e", "n", "g", "i", "n", "e">>,
     <<"t", "r", "a", "n", "s", "m", "i", "s", "s", "i", "o", "n">> >>

ExtractKeywords(raw_lines) ==
  SelectSeq(ServiceKeywords,
            LAMBDA kw : \E i \in 1..Len(raw_lines) :
                          IsSubstring(kw, ToLower(raw_lines[i])))


\* ---- _parse_text (lines 265-352)
\* A text as the parser sees it: its lines, group(1) of the first match of
\* each header regex (None: no match), and what re.findall returns for the
\* phone, email, plate, vehicle_make and currency_amount regexes
ParserText(lines, first, phones, emails, plates, makes, amounts) ==
  [lines |-> lines, first |-> first, phones |-> phones, emails |-> emails,
   plates |-> plates, makes |-> makes, amounts |-> amounts]

HeaderKeys ==
  {"invoice_no", "date", "tax_id", "vat_reg", "vat_amount", "gross_value",
   "net_value", "customer_name"}

\* The keys _parse_text can set
ParseKeys ==
  {"invoice_no", "date", "tax_id", "vat_amount", "gross_value", "net_value",
   "customer_name", "phone_numbers", "emails", "vehicle_plates",
   "vehicle_makes", "items", "amounts", "keywords", "service_description"}

\* _first_match (lines 274-279): the capture, trimmed
FirstMatch(text, key) ==
  IF text.first[key] = None THEN None ELSE Some(Strip(text.first[key][1]))

\* The vehicle makes of the model
MakeUniverse == { <<"B", "M", "W">>, <<"K", "I", "A">> }

\* The order in which a set of strings is iterated depends on the hashes
\* of the strings, which are salted once per process: a seed is the order
\* the process gives the makes
HashSeeds == Perms(MakeUniverse)

\* list(set(xs)) (line 320) in a process with the given seed
ListOfSet(xs, seed) ==
  SelectSeq(seed, LAMBDA m : \E i \in 1..Len(xs) : xs[i] = m)

\* lines 342-350: the first line that holds one of the keywords, trimmed
ServiceLine(raw_lines, keywords) ==
  LET hits == { i \in 1..Len(raw_lines) :
                  \E k \in 1..Len(keywords) :
                    IsSubstring(keywords[k], ToLower(raw_lines[i])) }
  IN IF hits = {} THEN None
     ELSE Some(Strip(raw_lines[CHOOSE i \in hits : \A j \in hits : i <= j]))

\* currency amounts (lines 331-339): the parsable ones, parsed
ParsedAmounts(amounts) ==
  LET nums == ParsedNums(amounts) IN [i \in 1..Len(nums) |-> Str(nums[i])]

StrList(xs) == [i \in 1..Len(xs) |-> Str(xs[i])]

\* `if v:` for the header captures (lines 281-307)
HeaderFound(o) == o # None /\ o[1] # <<>>

\* self._parse_amount_str(v) as a value of the map
AmountVal(o) ==
  IF ParseAmountStr(o[1]) = None THEN NoneVal ELSE Str(ParseAmountStr(o[1])[1])

\* _parse_text in a process with the given hash seed: a key is set when
\* its regex found something, keywords always
ParseText(text, seed) ==
  LET tax_id == IF HeaderFound(FirstMatch(text, "tax_id"))
                THEN FirstMatch(text, "tax_id") ELSE FirstMatch(text, "vat_reg")
      Header(k) == IF k = "tax_id" THEN tax_id ELSE FirstMatch(text, k)
      Found(k) ==
        CASE k \in {"invoice_no", "date", "tax_id", "vat_amount", "gross_value",
                    "net_value", "customer_name"} -> HeaderFound(Header(k))
          [] k = "phone_numbers" -> text.phones # <<>>
          [] k = "emails" -> text.emails # <<>>
          [] k = "vehicle_plates" -> text.plates # <<>>
          [] k = "vehicle_makes" -> text.makes # <<>>
          [] k = "items" -> ExtractItems(text.lines) # <<>>
          [] k = "amounts" -> text.amounts # <<>>
          [] k = "keywords" -> TRUE
          [] OTHER -> ServiceLine(text.lines, ExtractKeywords(text.lines)) # None
      Value(k) ==
        CASE k \in {"invoice_no", "date", "tax_id", "customer_name"} ->
               Str(Header(k)[1])
          [] k \in {"vat_amount", "gross_value", "net_value"} ->
               AmountVal(Header(k))
          [] k = "phone_numbers" ->
               ListVal(StrList([i \in 1..Len(text.phones) |->
                                  CleanPhone(text.phones[i])]))
          [] k = "emails" -> ListVal(StrList(Dedupe(text.emails)))
          [] k = "vehicle_plates" ->
               ListVal(StrList([i \in 1..Len(text.plates) |->
                                  CleanPlate(text.plates[i])]))
          [] k = "vehicle_makes" -> ListVal(StrList(ListOfSet(text.makes, seed)))
          [] k = "items" -> ListVal(ExtractItems(text.lines))
          [] k = "amounts" -> ListVal(ParsedAmounts(text.amounts))
          [] k = "keywords" -> ListVal(StrList(ExtractKeywords(text.lines)))
          [] OTHER ->
               Str(ServiceLine(text.lines, ExtractKeywords(text.lines))[1])
  IN [k \in { x \in ParseKeys : Found(x) } |-> Value(k)]

\* ---- texts for the parser
\* The most contact lines (a make or an e-mail address each) of a text
MaxMatches == 3

\* How often the parser is called on one text
MaxParseCalls == 2

SeqsUpTo(S, n) == UNION { [1..k -> S] : k \in 0..n }

\* What the header regexes capture in a text without headers
NoHeaders == [k \in HeaderKeys |-> None]

\* The first lines of a text, with what the regexes find in them: nothing;
\* an invoice with headers, an item line and a service line; two phone
\* numbers and three plates
ParserBodies ==
  { ParserText(<<>>, NoHeaders, <<>>, <<>>, <<>>, <<>>, <<>>),
    ParserText(<< <<"I", "n", "v", "o", "i", "c", "e", ":", " ", "P", "I", "-", "7">>,
                  <<"C", "u", "s", "t", "o", "m", "e", "r", ":", " ">>,
                  <<"G", "r", "o", "s", "s", " ", "V", "a", "l", "u", "e", ":", " ", ",">>,
                  <<"V", "A", "T", ":", " ", "1", ",", "8", "0", "0", ".", "0", "0">>,
                  <<"A", "0", "0", "1", " ", "B", "r", "a", "k", "e", " ", "P", "a", "d", " ", "S", "e", "t", " ", "2", " ", "1", "5", "0", "0", "0", " ", "3", "0", "0", "0", "0">>,
                  <<" ", "O", "i", "l", " ", "c", "h", "a", "n", "g", "e", " ">> >>,
               [k \in HeaderKeys |->
                  CASE k = "invoice_no" -> Some(<<"P", "I", "-", "7">>)
                    [] k = "vat_amount" -> Some(<<"1", ",", "8", "0", "0", ".", "0", "0">>)
                    [] k = "gross_value" -> Some(<<",">>)
                    [] k = "customer_name" -> Some(<<"G", "r", "o", "s", "s", " ", "V", "a", "l", "u", "e">>)
                    [] OTHER -> None],
               <<>>, <<>>, <<>>, <<>>,
               << <<"7">>,
                  <<" ", ",">>,
                  <<" ", "1", ",", "8", "0", "0", ".", "0", "0">>,
                  <<"0", "0", "1">>,
                  <<" ", "2">>,
                  <<" ", "1", "5", "0", "0", "0">>,
                  <<" ", "3", "0", "0", "0", "0">> >>),
    ParserText(<< <<"0", "7", "1", "-", "2", "3", "4", "-", "5", "6", "7", "8", " ", "0", "7", "1", "-", "2", "3", "4", "-", "5", "6", "7", "8">>,
                  <<"A", "B", "-", "1", "2", "-", "C", "D", " ", "1", "2", "A", "B", " ", "A", "B", "-", "1", "2", "-", "C", "D">> >>,
               NoHeaders,
               << <<"0", "7", "1", "-", "2", "3", "4", "-", "5", "6", "7", "8">>,
                  <<"0", "7", "1", "-", "2", "3", "4", "-", "5", "6", "7", "8">> >>,
               <<>>,
               << <<"5", "6", "7", "8", "\n", "A", "B">>,
                  <<"1", "2", "-", "C", "D">>,
                  <<"1", "2", "A", "B">>,
                  <<"A", "B", "-", "1", "2", "-", "C", "D">> >>,
               <<>>,
               << <<"0", "7", "1">>,
                  <<"2", "3", "4">>,
                  <<"5", "6", "7", "8">>,
                  <<" ", "0", "7", "1">>,
                  <<"2", "3", "4">>,
                  <<"5", "6", "7", "8">>,
                  <<"1", "2">>,
                  <<" ", "1", "2">>,
                  <<"1", "2">> >>) }

EmailLines == { <<"a", "@", "b", ".", "i", "o">>, <<"c", "@", "b", ".", "i", "o">> }

\* The lines that may follow: one make or one e-mail address each
ContactLines == MakeUniverse \cup EmailLines

\* A body followed by contact lines: their matches are the lines themselves
WithContacts(body, contacts) ==
  [body EXCEPT !.lines = @ \o contacts,
               !.emails = SelectSeq(contacts, LAMBDA c : c \in EmailLines),
               !.makes = SelectSeq(contacts, LAMBDA c : c \in MakeUniverse)]

ParserTexts ==
  { WithContacts(b, c) :
      b \in ParserBodies, c \in SeqsUpTo(ContactLines, MaxMatches) }

\* The parser has not been called on its text
NoParse(text, seed) ==
  [op |-> "_parse_text", arg |-> text, seed |-> seed, calls |-> 0,
   first |-> None, ret |-> None]

\* A process (its hash seed) and a text to parse
InitParse ==
  /\ store_patterns = {} /\ store_templates = {}
  /\ patterns = NewExtractor.patterns
  /\ service_templates = NewExtractor.service_templates
  /\ patterns_loaded = NewExtractor.loaded
  /\ store_reads = NewExtractor.reads
  /\ load_failed = FALSE
  /\ last = NoCall
  /\ scan = NoScan
  /\ db = NoDb
  /\ workers = [w \in WorkerIds |-> NoWorker]
  /\ calls = [c \in CallIds |-> NoPieCall]
  /\ \E text \in ParserTexts, seed \in HashSeeds : app = NoParse(text, seed)

\* The first call of _parse_text on the text
ParseTextFirst ==
  /\ app.op = "_parse_text" /\ app.calls = 0
  /\ \E r \in { ParseText(app.arg, app.seed) } :
       app' = [app EXCEPT !.ret = Some(r), !.first = Some(r), !.calls = 1]
  /\ UNCHANGED << instance_vars, scan, task_vars, calls >>

\* A later call on the same text, in the same process
ParseTextAgain ==
  /\ app.op = "_parse_text" /\ app.calls \in 1..(MaxParseCalls - 1)
  /\ \E r \in { ParseText(app.arg, app.seed) } :
       app' = [app EXCEPT !.ret = Some(r), !.calls = @ + 1]
  /\ UNCHANGED << instance_vars, scan, task_vars, calls >>

NextParse == ParseTextFirst \/ ParseTextAgain

SpecParse == InitParse /\ [][NextParse]_vars

\* ---- one process that uses an extractor instance and the parser
\* A text of three lines: two makes, one of them twice
IdempotenceTexts ==
  { WithContacts(b, << <<"K", "I", "A">>, <<"B", "M", "W">>, <<"K", "I", "A">> >>) :
      b \in { x \in ParserBodies : x.lines = <<>> } }

InitIdempotence ==
  /\ \E st \in Stores : store_patterns = st[1] /\ store_templates = st[2]
  /\ patterns = NewExtractor.patterns
  /\ service_templates = NewExtractor.service_templates
  /\ patterns_loaded = NewExtractor.loaded
  /\ store_reads = NewExtractor.reads
  /\ load_failed = FALSE
  /\ last = NoCall
  /\ scan = NoScan
  /\ db = NoDb
  /\ workers = [w \in WorkerIds |-> NoWorker]
  /\ calls = [c \in CallIds |-> NoPieCall]
  /\ \E text \in IdempotenceTexts, seed \in HashSeeds : app = NoParse(text, seed)

NextIdempotence ==
  \/ CallExtractAll
  \/ DropResult
  \/ ParseTextFirst
  \/ ParseTextAgain

SpecIdempotence == InitIdempotence /\ [][NextIdempotence]_vars

\* C21: extract_all and _parse_text return the same map for the same text:
\* the map an extract_all call returned, the loading call included, is the
\* map any later extract_all call on the instance returns for that text,
\* the instance does not change once it is loaded, and every later call of
\* the parser returns what its first call on the text returned.
C21_SameTextSameOutput ==
  /\ [](last.op = "extract_all" =>
          \A ans \in StoreAnswers(store_patterns, store_templates) :
            ExtractAll(Self, ans, last.text).ret = last.ret)
  /\ [](app.calls >= 1 => app.ret = app.first)
  /\ [][patterns_loaded =>
          UNCHANGED << store_patterns, store_templates, patterns,
                       service_templates, patterns_loaded >>]_vars

\* A second extract_all call on a loaded instance whose first load raised,
\* after the parser was called twice on a text with two makes
C21_Witness ==
  /\ last.op = "extract_all" /\ last.pre_loaded /\ load_failed
  /\ "plate_number" \in DOMAIN last.ret
  /\ app.calls = 2
  /\ Len(app.ret[1]["vehicle_makes"].items) = 2


\* The strings of a list of the parser's output, <<>> when the key is unset
ParsedList(key) ==
  IF key \in DOMAIN app.ret[1]
  THEN [i \in 1..Len(app.ret[1][key].items) |-> app.ret[1][key].items[i].s]
  ELSE <<>>

\* C22: in the parser's output emails and vehicle_makes hold every distinct
\* match once, in the order of first occurrence in the text, and
\* phone_numbers and vehicle_plates hold every match, in text order.
C22_ListsKeepTextOrder ==
  (app.op = "_parse_text" /\ app.calls >= 1) =>
    /\ IsFirstOccurrences(ParsedList("emails"), app.arg.emails)
    /\ IsFirstOccurrences(ParsedList("vehicle_makes"), app.arg.makes)
    /\ ParsedList("phone_numbers")
         = [i \in 1..Len(app.arg.phones) |-> CleanPhone(app.arg.phones[i])]
    /\ ParsedList("vehicle_plates")
         = [i \in 1..Len(app.arg.plates) |-> CleanPlate(app.arg.plates[i])]


\* ======================================================================
\* The length of raw_text (specification SpecTruncate)
\* ======================================================================
\* Lengths around the two limits
LongTextLens ==
  { FallbackRawTextLimit - 1, FallbackRawTextLimit, FallbackRawTextLimit + 1,
    RawTextLimit, RawTextLimit + 1 }

\* Texts of these lengths, without and with matches
LongTexts ==
  { MkText(n, <<>>, <<>>, <<"none", "none">>, ev,
           IF ev = "values" THEN SampleItems ELSE <<>>) :
      n \in LongTextLens, ev \in {"none", "values"} }

\* A PDF the collaborator reads, and a file that is decoded.  A successful
\* result of extract_from_file always carries structured_data: it is
\* _parse_text(raw_text), which sets at least the keywords
\* (document_extraction.py lines 110-116, 146-152, 172-178)
LongInputs(answers) ==
  { PieInput(Some(".pdf"), "ok", CollabSuccess(text, DocStruct(dv, text)), None,
             ans, f[1], f[2]) :
      text \in LongTexts, dv \in {"minimal", "full"}, ans \in answers, f \in Faults }
  \cup { PieInput(Some(".pdf"), "raise", CollabFailure(None), Some(text), ans,
                  f[1], f[2]) :
           text \in LongTexts, ans \in answers, f \in Faults }

CallOnLongText ==
  /\ scan.op = "none"
  /\ \E in \in LongInputs(StoreAnswers(store_patterns, store_templates)) :
       scan' = [op |-> "process_invoice_extraction", in |-> in,
                out |-> ProcessInvoiceExtraction(in)]
  /\ UNCHANGED << instance_vars, app, task_vars, calls >>

NextTruncate == CallOnLongText \/ DropScan

SpecTruncate == Init /\ [][NextTruncate]_vars

\* The text the call acquired: the collaborator's, or the decoded file
AcquiredText ==
  IF scan.in.path = "raise" THEN scan.in.decode[1] ELSE scan.in.collab.raw_text

\* The collaborator gave the call no structured data
NoStructuredData ==
  \/ scan.in.path = "raise"
  \/ ~scan.in.collab.success
  \/ scan.in.collab.structured_data = None

\* C23: the returned raw_text is a prefix of the acquired text, of at most
\* 10,000 characters, and of at most 5,000 when the collaborator gave no
\* structured data.
C23_RawTextIsBoundedPrefix ==
  (scan.op = "process_invoice_extraction" /\ "raw_text" \in DOMAIN scan.out.ret) =>
    /\ scan.out.ret["raw_text"].t = "text"
    /\ scan.out.ret["raw_text"].len <= AcquiredText.len
    /\ scan.out.ret["raw_text"].len <= RawTextLimit
    /\ NoStructuredData => scan.out.ret["raw_text"].len <= FallbackRawTextLimit

\* A decoded file of more than 5,000 characters, cut to 5,000
C23_Witness ==
  /\ scan.op = "process_invoice_extraction"
  /\ NoStructuredData
  /\ AcquiredText.len > FallbackRawTextLimit
  /\ "raw_text" \in DOMAIN scan.out.ret
  /\ scan.out.ret["raw_text"].len = FallbackRawTextLimit


\* ======================================================================
\* Plate normalization (specification SpecPlate)
\* ======================================================================
\* The longest plate string
MaxPlateLen == 4

\* Strings of letters of both cases, digits, blanks and hyphens
PlateChars == {"a", "B", "1", "2", " ", "-"}

PlateInputs == SeqsUpTo(PlateChars, MaxPlateLen)

\* A string to normalize
InitPlate ==
  /\ store_patterns = {} /\ store_templates = {}
  /\ patterns = NewExtractor.patterns
  /\ service_templates = NewExtractor.service_templates
  /\ patterns_loaded = NewExtractor.loaded
  /\ store_reads = NewExtractor.reads
  /\ load_failed = FALSE
  /\ last = NoCall
  /\ scan = NoScan
  /\ db = NoDb
  /\ workers = [w \in WorkerIds |-> NoWorker]
  /\ calls = [c \in CallIds |-> NoPieCall]
  /\ \E x \in PlateInputs :
       app = [op |-> "_clean_plate", arg |-> x, calls |-> 0,
              first |-> None, ret |-> None]

\* _clean_plate(x)
CleanPlateOnce ==
  /\ app.op = "_clean_plate" /\ app.calls = 0
  /\ \E r \in { CleanPlate(app.arg) } :
       app' = [app EXCEPT !.first = Some(r), !.ret = Some(r), !.calls = 1]
  /\ UNCHANGED << instance_vars, scan, task_vars, calls >>

\* _clean_plate of what the first call returned
CleanPlateTwice ==
  /\ app.op = "_clean_plate" /\ app.calls = 1
  /\ \E r \in { CleanPlate(app.ret[1]) } :
       app' = [app EXCEPT !.ret = Some(r), !.calls = 2]
  /\ UNCHANGED << instance_vars, scan, task_vars, calls >>

NextPlate == CleanPlateOnce \/ CleanPlateTwice

SpecPlate == InitPlate /\ [][NextPlate]_vars

\* C24: _clean_plate(_clean_plate(x)) = _clean_plate(x) for every string x
C24_CleanPlateIdempotent ==
  (app.op = "_clean_plate" /\ app.calls = 2) => app.ret = app.first

\* A string that reduces to letters, digits, letters and is written with
\* blanks between them, normalized twice
C24_Witness ==
  /\ app.op = "_clean_plate" /\ app.calls = 2
  /\ app.arg = <<"a", "-", "1", "B">>
  /\ app.first = Some(<<"A", " ", "1", " ", "B">>)


\* ======================================================================
\* Line items of the returned map (specification SpecPIE)
\* ======================================================================
\* The list the items of the call were taken from (lines 355-367): the
\* collaborator's list when it reports one, else what _extract_items
\* finds in the text
SourceItems ==
  LET doc_struct == DocStructOf(scan.in.collab) IN
    IF "items" \in DOMAIN doc_struct /\ doc_struct["items"].t = "list"
    THEN doc_struct["items"].items
    ELSE scan.in.collab.raw_text.items

\* C25: the items of the returned map are numbered 1, 2, 3, ... in source
\* order, one for each item of the source, whichever source supplied them.
C25_ItemsNumberedFromOne ==
  (scan.op = "process_invoice_extraction" /\ "items" \in DOMAIN scan.out.ret) =>
    /\ scan.out.ret["items"].t = "list"
    /\ Len(scan.out.ret["items"].items) = Len(SourceItems)
    /\ \A i \in 1..Len(scan.out.ret["items"].items) :
         /\ scan.out.ret["items"].items[i].line_no = i
         /\ scan.out.ret["items"].items[i].description
              = (IF Strip(SourceItems[i].description) = <<>> THEN None
                 ELSE Some(Strip(SourceItems[i].description)))

\* Three items of the collaborator, numbered 1 to 3
C25_Witness ==
  /\ scan.op = "process_invoice_extraction"
  /\ "items" \in DOMAIN DocStructOf(scan.in.collab)
  /\ "items" \in DOMAIN scan.out.ret
  /\ Len(scan.out.ret["items"].items) = 3
  /\ scan.out.ret["items"].items[3].line_no = 3


\* The sub-fields of a source item that _to_decimal is given (lines 365-367)
RawNumber(it, f) ==
  CASE f = "qty" -> it.qty
    [] f = "rate" -> OrNone(it.rate)
    [] OTHER -> OrNone(it.value)

\* A string Decimal() accepts: digits with at most one point, once commas
\* and outer blanks are gone
IsDecimalText(o) ==
  /\ o # None
  /\ LET s == Strip(RemoveCommas(o[1])) IN
       /\ \A i \in 1..Len(s) : s[i] \in Digits \cup {"."}
       /\ \E i \in 1..Len(s) : s[i] \in Digits
       /\ Cardinality({ i \in 1..Len(s) : s[i] = "." }) <= 1

\* Some sub-field of some source item is set and is no decimal
HasUnparsableNumber ==
  \E i \in 1..Len(SourceItems), f \in {"qty", "rate", "value"} :
    RawNumber(SourceItems[i], f) # None /\ ~IsDecimalText(RawNumber(SourceItems[i], f))

\* The source item with the sub-fields that are no decimals left out
WithoutUnparsable(it) ==
  [it EXCEPT !.qty = IF IsDecimalText(it.qty) THEN it.qty ELSE None,
             !.rate = IF IsDecimalText(OrNone(it.rate)) THEN it.rate ELSE None,
             !.value = IF IsDecimalText(OrNone(it.value)) THEN it.value ELSE None]

\* The call with those sub-fields left out of the collaborator's items
WithoutUnparsableInput(in) ==
  LET doc_struct == DocStructOf(in.collab)
      items == doc_struct["items"].items
  IN [in EXCEPT !.collab.structured_data =
        Some(Put(doc_struct, "items",
                 ListVal([i \in 1..Len(items) |-> WithoutUnparsable(items[i])])))]

\* C26: a qty, rate or value that is no decimal becomes None and changes
\* nothing else: the call returns a field map, each sub-field of each item
\* is None exactly when its source is unset or no decimal, the items keep
\* their number, code and description, and the map is the one the call
\* returns when the unparsable sub-fields are left out of the source.
C26_UnparsableNumberIsNone ==
  ( /\ scan.op = "process_invoice_extraction"
    /\ scan.in.fault = "none"
    /\ scan.out.merged
    /\ HasUnparsableNumber ) =>
    /\ "error" \notin DOMAIN scan.out.ret
    /\ "items" \in DOMAIN scan.out.ret
    /\ Len(scan.out.ret["items"].items) = Len(SourceItems)
    /\ \A i \in 1..Len(SourceItems) :
         LET it == scan.out.ret["items"].items[i] IN
           /\ \A f \in {"qty", "rate", "value"} :
                /\ (it[f] # None) = IsDecimalText(RawNumber(SourceItems[i], f))
                /\ it[f] # None =>
                     it[f] = ParseDecimal(Strip(RemoveCommas(
                                            RawNumber(SourceItems[i], f)[1])))
           /\ it.line_no = i
           /\ it.description
                = (IF Strip(SourceItems[i].description) = <<>> THEN None
                   ELSE Some(Strip(SourceItems[i].description)))
    /\ "items" \in DOMAIN DocStructOf(scan.in.collab) =>
         scan.out.ret = ProcessInvoiceExtraction(WithoutUnparsableInput(scan.in)).ret

\* The collaborator's third item has a qty that is no number: it is
\* returned with qty None and with its value, next to the first item with
\* all its numbers
C26_Witness ==
  /\ scan.op = "process_invoice_extraction"
  /\ scan.in.fault = "none"
  /\ scan.out.merged
  /\ HasUnparsableNumber
  /\ SourceItems[3].qty = Some(<<"x">>)
  /\ scan.out.ret["items"].items[3].qty = None
  /\ scan.out.ret["items"].items[3].value # None
  /\ scan.out.ret["items"].items[1].qty # None



\* ======================================================================
\* _extract_items on lists of lines (specification SpecItems)
\* ======================================================================
MaxItemLines == 3

\* Lines of an invoice text: an item line with a code and three numbers,
\* header lines, a line without digits, one without letters, lines with
\* one, two and five numbers, a line that starts with the letters of a
\* header word, and a blank line
ItemLines ==
  { <<"A", "0", "0", "1", " ", "B", "r", "a", "k", "e", " ", "P", "a", "d", " ", "S", "e", "t", " ", "2", " ", "1", "5", "0", "0", "0", " ", "3", "0", "0", "0", "0">>, <<"I", "n", "v", "o", "i", "c", "e", " ", "1", "2", " ", "A">>,
    <<"O", "i", "l", " ", "c", "h", "a", "n", "g", "e">>, <<"1", "2", "3", "4", "5">>, <<" ", "T", "y", "r", "e", " ", "4", " ">>, <<"T", "a", "x", "i", " ", "2", " ", "5", "0", "0">>,
    <<"B", "2", " ", "1", ",", "5", "0", "0", ".", "0", "0", " ", "x", " ", "3">>, <<" ", " ", " ">>, <<"x", " ", "1", ".", "2", "3", "4", " ", "5", " ", "6", " ", "7">>, <<"V", "A", "T", "-", "5", " ", "b">> }

ItemTexts == SeqsUpTo(ItemLines, MaxItemLines)

\* The lines of a text to read the items of
InitItems ==
  /\ store_patterns = {} /\ store_templates = {}
  /\ patterns = NewExtractor.patterns
  /\ service_templates = NewExtractor.service_templates
  /\ patterns_loaded = NewExtractor.loaded
  /\ store_reads = NewExtractor.reads
  /\ load_failed = FALSE
  /\ last = NoCall
  /\ scan = NoScan
  /\ db = NoDb
  /\ workers = [w \in WorkerIds |-> NoWorker]
  /\ calls = [c \in CallIds |-> NoPieCall]
  /\ \E x \in ItemTexts :
       app = [op |-> "_extract_items", arg |-> x, calls |-> 0,
              first |-> None, ret |-> None]

\* _extract_items(text)
CallExtractItems ==
  /\ app.op = "_extract_items" /\ app.calls = 0
  /\ \E r \in { ExtractItems(app.arg) } :
       app' = [app EXCEPT !.first = Some(r), !.ret = Some(r), !.calls = 1]
  /\ UNCHANGED << instance_vars, scan, task_vars, calls >>

NextItems == CallExtractItems

SpecItems == InitItems /\ [][NextItems]_vars

\* The line of the example and the item it gives
ExampleLine == <<"A", "0", "0", "1", " ", "B", "r", "a", "k", "e", " ", "P", "a", "d", " ", "S", "e", "t", " ", "2", " ", "1", "5", "0", "0", "0", " ", "3", "0", "0", "0", "0">>

ExampleItem ==
  [description |-> ExampleLine, code |-> Some(<<"A", "0", "0", "1">>),
   qty |-> Some(<<"2">>), rate |-> Some(<<"1", "5", "0", "0", "0">>),
   value |-> Some(<<"3", "0", "0", "0", "0">>)]

\* C27: the returned items are those of the lines that hold a letter and a
\* digit and do not start with a header word, in the order of the lines;
\* value is the last number of the line, rate the one before it and qty
\* the one before that, None where the line has fewer numbers; the example
\* line gives code A001, qty 2, rate 15000 and value 30000; and value or
\* qty of every returned item is a decimal number
C27_ItemsFromCandidateLines ==
  (app.op = "_extract_items" /\ app.calls = 1) =>
    LET lines == StrippedLines(app.arg)
        cands == SelectSeq([i \in 1..Len(lines) |-> i],
                           LAMBDA i : /\ HasLetterAndDigit(lines[i])
                                      /\ ~StartsWithHeaderWord(lines[i]))
        items == app.ret[1]
    IN /\ Len(items) = Len(cands)
       /\ \A k \in 1..Len(cands) :
            LET line == lines[cands[k]]
                tokens == AmountTokens(RemoveCommas(line), 1)
                n == Len(tokens)
            IN /\ items[k].description = line
               /\ n >= 1
               /\ items[k].value = Some(tokens[n])
               /\ items[k].rate = (IF n >= 2 THEN Some(tokens[n - 1]) ELSE None)
               /\ items[k].qty = (IF n >= 3 THEN Some(tokens[n - 2]) ELSE None)
               /\ IsDecimalText(items[k].value) \/ IsDecimalText(items[k].qty)
               /\ line = ExampleLine => items[k] = ExampleItem

\* The example line between a header line and a line with one number
C27_Witness ==
  /\ app.op = "_extract_items" /\ app.calls = 1
  /\ app.arg = << <<"I", "n", "v", "o", "i", "c", "e", " ", "1", "2", " ", "A">>, ExampleLine, <<" ", "T", "y", "r", "e", " ", "4", " ">> >>
  /\ app.ret = Some(<< ExampleItem,
                       [description |-> <<"T", "y", "r", "e", " ", "4">>, code |-> None,
                        qty |-> None, rate |-> None,
                        value |-> Some(<<"4">>)] >>)



\* ======================================================================
\* extract_amount and the amount key of extract_all (specification Spec)
\* ======================================================================
\* The amount rules' capture of the text of the last call, as extract_field
\* returns it on the instance the call left behind
AmountCapture(ans) == ExtractField(Self, ans, last.text, "amount").ret

\* A string of digits and points that decimal.Decimal accepts: one digit
\* at least and one point at most
ValidDecimal(s) ==
  /\ \E i \in 1..Len(s) : s[i] \in Digits
  /\ Cardinality({ i \in 1..Len(s) : s[i] = "." }) <= 1

\* C28: extract_amount returns None when no amount rule matches or when the
\* capture, reduced to digits and points, is no valid decimal, and a
\* decimal otherwise; and extract_all holds the key amount exactly when
\* extract_amount of the same text is not None, a zero included
C28_AmountKeyIffAmount ==
  \A ans \in StoreAnswers(store_patterns, store_templates) :
    /\ last.op = "extract_amount" =>
         ( last.ret = None <=>
             \/ AmountCapture(ans) = None
             \/ AmountCapture(ans)[1] = <<>>
             \/ ~ValidDecimal(FilterSeq(AmountCapture(ans)[1], Digits \cup {"."})) )
    /\ last.op = "extract_all" =>
         ( "amount" \in DOMAIN last.ret <=>
             ExtractAmount(Self, ans, last.text).ret # None )



\* ======================================================================
\* match_service_template before and after the configuration is loaded
\* (specification Spec)
\* ======================================================================
\* C29: match_service_template of a non-empty description returns what it
\* returns once a call of extract_field or extract_all has loaded the
\* active templates of the store: the result does not depend on whether
\* such a call came first
C29_MatchIndependentOfCallOrder ==
  ( /\ last.op = "match_service_template"
    /\ last.description # None
    /\ last.description # Some(<<>>) ) =>
    \A ans \in StoreAnswers(store_patterns, store_templates) :
      ans.fault.phase = "none" =>
        last.ret = MatchServiceTemplate(LoadPatternsFromDb(Self, ans),
                                        last.description)



\* ======================================================================
\* get_extractor called from several threads (specification
\* SpecSingleton)
\* ======================================================================
ThreadIds == {1, 2, 3}

\* Calls of get_extractor a thread makes
MaxGetCalls == 2

\* A thread outside get_extractor: its position, the instance it built
\* (line 455), the calls it has made, and what its last call returned
NoThread == [pc |-> "idle", new |-> None, calls |-> 0, ret |-> None]

\* The module after import (line 449): _extractor_instance is None and no
\* InvoiceExtractor has been built; returned collects what the calls
\* returned
InitSingleton ==
  /\ store_patterns = {} /\ store_templates = {}
  /\ patterns = NewExtractor.patterns
  /\ service_templates = NewExtractor.service_templates
  /\ patterns_loaded = NewExtractor.loaded
  /\ store_reads = NewExtractor.reads
  /\ load_failed = FALSE
  /\ last = NoCall
  /\ scan = NoScan
  /\ db = NoDb
  /\ workers = [w \in WorkerIds |-> NoWorker]
  /\ calls = [c \in CallIds |-> NoPieCall]
  /\ app = [op |-> "get_extractor", extractor_instance |-> None,
            created |-> 0, returned |-> {},
            threads |-> [t \in ThreadIds |-> NoThread]]

\* A step of thread t that leaves the thread as th and the rest of the
\* module state as given
ThreadStep(t, th, inst, created, returned) ==
  /\ app' = [app EXCEPT !.threads[t] = th, !.extractor_instance = inst,
                        !.created = created, !.returned = returned]
  /\ UNCHANGED << instance_vars, scan, task_vars, calls >>

\* A thread calls get_extractor()
EnterGetExtractor(t) ==
  /\ app.threads[t].pc = "idle"
  /\ app.threads[t].calls < MaxGetCalls
  /\ ThreadStep(t, [app.threads[t] EXCEPT !.pc = "test", !.calls = @ + 1,
                                           !.new = None, !.ret = None],
                app.extractor_instance, app.created, app.returned)

\* line 454: if _extractor_instance is None
TestInstance(t) ==
  /\ app.threads[t].pc = "test"
  /\ ThreadStep(t, [app.threads[t] EXCEPT
                      !.pc = IF app.extractor_instance = None
                             THEN "construct" ELSE "return"],
                app.extractor_instance, app.created, app.returned)

\* line 455, right-hand side: InvoiceExtractor() builds an instance
Construct(t) ==
  /\ app.threads[t].pc = "construct"
  /\ ThreadStep(t, [app.threads[t] EXCEPT !.pc = "assign",
                                           !.new = Some(app.created + 1)],
                app.extractor_instance, app.created + 1, app.returned)

\* line 455, assignment: the global names the instance this thread built
AssignInstance(t) ==
  /\ app.threads[t].pc = "assign"
  /\ ThreadStep(t, [app.threads[t] EXCEPT !.pc = "return"],
                app.threads[t].new, app.created, app.returned)

\* line 456: return _extractor_instance
ReturnInstance(t) ==
  /\ app.threads[t].pc = "return"
  /\ ThreadStep(t, [app.threads[t] EXCEPT !.pc = "idle",
                                           !.ret = app.extractor_instance],
                app.extractor_instance, app.created,
                app.returned \cup {app.extractor_instance})

NextSingleton ==
  \/ \E t \in ThreadIds : EnterGetExtractor(t)
  \/ \E t \in ThreadIds : TestInstance(t)
  \/ \E t \in ThreadIds : Construct(t)
  \/ \E t \in ThreadIds : AssignInstance(t)
  \/ \E t \in ThreadIds : ReturnInstance(t)

SpecSingleton == InitSingleton /\ [][NextSingleton]_vars

\* C30: at most one InvoiceExtractor is ever built by get_extractor, and
\* all calls, of all threads, return the same instance
C30_SingleInstance ==
  /\ app.created <= 1
  /\ Cardinality(app.returned) <= 1

====
